---- MODULE Spec2Model ----
(***************************************************************************)
(* Verification model of webgestalt_rust: the statistics utilities         *)
(* (stat.rs), the ORA engine (methods/ora.rs), the GSEA engine             *)
(* (methods/gsea.rs), the NTA engine (methods/nta.rs), and the merging of  *)
(* rank lists and set collections and the meta-analysis of several jobs    *)
(* (methods/multiomics.rs).                                                *)
(*                                                                         *)
(* f64 values are modelled as exact extended rationals <<n, d>> with       *)
(* d >= 0 and gcd(n, d) = 1.  d = 0 encodes the IEEE specials:             *)
(* <<1, 0>> = +inf, <<-1, 0>> = -inf, <<0, 0>> = NaN.  No division by a    *)
(* negative zero occurs in the modelled code, so zero is unsigned.         *)
(* Arithmetic is exact except where the rounding of f64 decides what the   *)
(* code does: in the parallel sums of gsea.rs, whose order of additions    *)
(* is not fixed by the code, and in the random walk of nta.rs, whose loop  *)
(* ends on a comparison of rounded iterates.  There every operation is     *)
(* rounded to SigBits significant bits.                                    *)
(***************************************************************************)
EXTENDS Integers, Sequences, FiniteSets, TLC

VARIABLES
    \* stat::adjust, one call
    bh_pc,        \* "call" | "done"
    bh_method,    \* AdjustmentMethod: "BH" | "None"
    bh_p,         \* the p_vals argument
    bh_out,       \* the returned vector
    \* ora_p, one call
    hy_pc,        \* "call" | "done"
    hy_args,      \* <<m, j, n, k>>
    hy_out,       \* the returned f64
    \* get_ora, one call
    ora_pc,       \* "scoring" | "done" | "panic"
    interest_list,\* FxHashSet of analytes
    reference,    \* FxHashSet of analytes
    gmt,          \* Vec<Item>: records [id, parts]
    config,       \* ORAConfig
    ora_todo,     \* indices of gmt that par_iter has not visited yet
    res,          \* the Mutex<Vec<PartialORAResult>>
    final_res,    \* the returned Vec<ORAResult>
    \* gsea, one call
    gs_pc,                 \* "start" | "scoring" | "done" | "panic"
    overflow_checks,       \* whether the build checks integer overflow
    analyte_list,          \* Vec<RankListItem>: records [analyte, rank]
    gsea_gmt,              \* Vec<Item>: records [id, parts]
    gsea_config,           \* GSEAConfig
    provided_permutations, \* Option<Vec<Vec<usize>>>: <<>> | <<table>>
    permutations,          \* the table gsea scores with
    analytes,              \* the analytes of the sorted rank list
    ranks,                 \* the ranks of the sorted rank list
    gs_todo,               \* indices of gmt that par_iter has not mapped yet
    partial_results,       \* the Vec<PartialGSEAResult> being collected
    final_gsea,            \* the returned Vec<GSEAResult>
    \* get_nta, one call
    nta_pc,       \* "start" | "walk" | "done" | "panic"
    nta_config,   \* NTAConfig
    reverse_map,  \* the nodes in the order the AHashSet enumerates them
    pt,           \* the previous iterate of random_walk_probability
    pt1,          \* the current iterate
    nta_result,   \* the returned NTAResult, <<>> while there is none
    \* combine_lists, one call
    cl_pc,        \* "call" | "done" | "panic"
    cl_lists,     \* Vec<Vec<RankListItem>>: records [analyte, rank]
    cl_method,    \* MultiOmicsMethod: [kind, norm]
    cl_out,       \* the returned Vec<RankListItem>
    \* combine_gmts, one call
    cg_pc,        \* "call" | "done"
    cg_gmts,      \* Vec<Vec<Item>>: records [id, url, parts]
    cg_out,       \* the returned Vec<Item>
    \* make_permutations, one call
    mp_pc,              \* "loop" | "done"
    mp_args,            \* [permutations, max]
    temp_permutations,  \* the rows pushed so far
    \* stouffer and fisher, one call of each on the same vector
    mt_pc,        \* "call" | "done"
    mt_vals,      \* the p-values to combine
    mt_out,       \* [stouffer, fisher]: the two returned values
    \* multiomic_gsea or multiomic_ora with a meta-analysis method, one call
    mm_pc,        \* "jobs" | "done" | "panic"
    mm_call,      \* [analysis, method]
    mm_jobs,      \* what gsea or get_ora returns for each job: rows [set, p]
    phash,        \* the AHashMap from set id to p-values: entries [set, ps]
    mm_results    \* the vector of result vectors, <<>> before any job has run

bhVars == <<bh_pc, bh_method, bh_p, bh_out>>
hyVars == <<hy_pc, hy_args, hy_out>>
oraVars == <<ora_pc, interest_list, reference, gmt, config, ora_todo, res, final_res>>
gsVars == <<gs_pc, overflow_checks, analyte_list, gsea_gmt, gsea_config,
           provided_permutations, permutations, analytes, ranks, gs_todo,
           partial_results, final_gsea>>
ntaVars == <<nta_pc, nta_config, reverse_map, pt, pt1, nta_result>>
clVars == <<cl_pc, cl_lists, cl_method, cl_out>>
cgVars == <<cg_pc, cg_gmts, cg_out>>
mpVars == <<mp_pc, mp_args, temp_permutations>>
mtVars == <<mt_pc, mt_vals, mt_out>>
mmVars == <<mm_pc, mm_call, mm_jobs, phash, mm_results>>
restVars == <<mpVars, mtVars, mmVars>>
moVars == <<ntaVars, clVars, cgVars, restVars>>
vars == <<bhVars, hyVars, oraVars, gsVars, moVars>>

----------------------------------------------------------------------------
(* f64 arithmetic *)

Abs(x) == IF x < 0 THEN -x ELSE x
Sgn(x) == IF x > 0 THEN 1 ELSE IF x < 0 THEN -1 ELSE 0

RECURSIVE GCD(_, _)
GCD(a, b) == IF b = 0 THEN a ELSE GCD(b, a % b)

F(n, d) ==
    IF d = 0 THEN <<Sgn(n), 0>>
    ELSE LET g == GCD(Abs(n), Abs(d))
             s == Sgn(d)
         IN <<(s * n) \div g, (s * d) \div g>>

I(n) == <<n, 1>>
NaN == <<0, 0>>
PInf == <<1, 0>>
NInf == <<-1, 0>>

IsNaN(x) == x = NaN
IsInf(x) == x[2] = 0 /\ x[1] # 0
IsFinite(x) == x[2] # 0

FNeg(x) == <<-x[1], x[2]>>
FAbs(x) == <<Abs(x[1]), x[2]>>
FMul(x, y) == F(x[1] * y[1], x[2] * y[2])
FDiv(x, y) == F(x[1] * y[2] * (IF y[1] < 0 THEN -1 ELSE 1), x[2] * Abs(y[1]))
FAdd(x, y) ==
    IF IsNaN(x) \/ IsNaN(y) THEN NaN
    ELSE IF IsInf(x) /\ IsInf(y) THEN (IF x = y THEN x ELSE NaN)
    ELSE IF IsInf(x) THEN x
    ELSE IF IsInf(y) THEN y
    ELSE F(x[1] * y[2] + y[1] * x[2], x[2] * y[2])
FSub(x, y) == FAdd(x, FNeg(y))

\* IEEE comparisons: every comparison with NaN is false
FLt(x, y) ==
    /\ ~IsNaN(x) /\ ~IsNaN(y)
    /\ IF IsInf(x) \/ IsInf(y)
       THEN /\ x # y
            /\ \/ x = NInf
               \/ y = PInf
       ELSE x[1] * y[2] < y[1] * x[2]
FEq(x, y) == ~IsNaN(x) /\ ~IsNaN(y) /\ x = y
FLeq(x, y) == FLt(x, y) \/ FEq(x, y)
FGt(x, y) == FLt(y, x)
FGeq(x, y) == FLeq(y, x)

\* the sum of a sequence of f64 values, left to right from 0.0
RECURSIVE FSum(_)
FSum(s) == IF s = <<>> THEN I(0) ELSE FAdd(FSum(SubSeq(s, 1, Len(s) - 1)), s[Len(s)])

----------------------------------------------------------------------------
(* stat.rs *)

\* carriers.sort_by(|a, b| a.p.partial_cmp(&b.p)): a stable sort of the
\* original indices by p ascending, built by inserting the indices in order
RECURSIVE InsertCarrier(_, _, _)
InsertCarrier(s, i, p) ==
    IF s = <<>> THEN <<i>>
    ELSE IF FLeq(p[Head(s)], p[i]) THEN <<Head(s)>> \o InsertCarrier(Tail(s), i, p)
    ELSE <<i>> \o s

RECURSIVE SortCarriers(_, _)
SortCarriers(p, k) ==
    IF k = 0 THEN <<>> ELSE InsertCarrier(SortCarriers(p, k - 1), k, p)

\* one iteration of the reversed loop, with the clamp to 1.0 and the
\* running minimum prev_fdr
BHStepNoRunningMin(p, m, rank, prev_fdr) ==
    LET fdr == FDiv(FMul(p, I(m)), I(rank))
    IN IF FGt(fdr, I(1)) THEN I(1) ELSE fdr

BHStep(p, m, rank, prev_fdr) ==
    LET fdr == FDiv(FMul(p, I(m)), I(rank))
        clamped == IF FGt(fdr, I(1)) THEN I(1) ELSE fdr
    IN IF FGt(clamped, prev_fdr) THEN prev_fdr ELSE clamped

RECURSIVE BHLoop(_, _, _, _, _)
BHLoop(carriers, p, i, prev_fdr, fdr_vals) ==
    IF i = 0 THEN fdr_vals
    ELSE LET c == carriers[i]
             fdr == BHStep(p[c], Len(p), i, prev_fdr)
         IN BHLoop(carriers, p, i - 1, fdr, [fdr_vals EXCEPT ![c] = fdr])

benjamini_hochberg(p) ==
    BHLoop(SortCarriers(p, Len(p)), p, Len(p), I(1), [i \in 1..Len(p) |-> I(0)])

adjust(p, method) ==
    IF method = "BH" THEN benjamini_hochberg(p) ELSE p

----------------------------------------------------------------------------
(* methods/ora.rs: ora_p *)

\* A u64 as four 16-bit limbs, most significant first.  `x as u64` of an i64
\* x keeps the low 64 bits of the two's complement: a negative x becomes
\* 2^64 + x, whose limbs are the complements of the limbs of -x - 1.
Limb == 65536

U64OfNat(x) == <<0, 0, x \div Limb, x % Limb>>
AsU64(x) ==
    IF x >= 0 THEN U64OfNat(x)
    ELSE LET c == U64OfNat(-x - 1)
         IN [i \in 1..4 |-> (Limb - 1) - c[i]]

RECURSIVE U64LtFrom(_, _, _)
U64LtFrom(a, b, i) ==
    IF i > 4 THEN FALSE
    ELSE IF a[i] # b[i] THEN a[i] < b[i]
    ELSE U64LtFrom(a, b, i + 1)
U64Lt(a, b) == U64LtFrom(a, b, 1)
\* the value of a u64 known to be below 2^31
U64Small(a) == a[3] * Limb + a[4]

RECURSIVE Binomial(_, _)
Binomial(n, k) ==
    IF k < 0 \/ k > n THEN 0
    ELSE IF k = 0 THEN 1
    ELSE (Binomial(n - 1, k - 1) * n) \div k

Min2(a, b) == IF a < b THEN a ELSE b
Max2(a, b) == IF a > b THEN a ELSE b

\* statrs Hypergeometric { population, successes, draws }
HypMin(population, successes, draws) == Max2(0, (draws + successes) - population)
HypMax(population, successes, draws) == Min2(successes, draws)
HypPmf(population, successes, draws, i) ==
    F(Binomial(successes, i) * Binomial(population - successes, draws - i),
      Binomial(population, draws))

RECURSIVE HypPmfSum(_, _, _, _, _)
HypPmfSum(population, successes, draws, lo, hi) ==
    IF lo > hi THEN I(0)
    ELSE FAdd(HypPmfSum(population, successes, draws, lo, hi - 1),
              HypPmf(population, successes, draws, hi))

\* Hypergeometric::sf(x), x a u64: P(X > x)
HypSf(population, successes, draws, x) ==
    IF U64Lt(x, U64OfNat(HypMin(population, successes, draws))) THEN I(1)
    ELSE IF ~U64Lt(x, U64OfNat(HypMax(population, successes, draws))) THEN I(0)
    ELSE HypPmfSum(population, successes, draws, U64Small(x) + 1,
                   HypMax(population, successes, draws))

\* Hypergeometric::new(..).unwrap() panics when successes or draws exceed
\* the population
HypNewFails(population, successes, draws) ==
    successes > population \/ draws > population

ora_p(m, j, n, k) == HypSf(m, j, n, AsU64(k - 1))

----------------------------------------------------------------------------
(* methods/ora.rs: get_ora *)

\* the loop over i.parts: every occurrence of a member is counted
CountIn(parts, S) == Cardinality({x \in 1..Len(parts) : parts[x] \in S})

InSizeRange(item, cfg) ==
    Len(item.parts) >= cfg.min_set_size /\ Len(item.parts) <= cfg.max_set_size

\* the PartialORAResult a worker pushes for an item that passed both filters
PartialOf(item, interest, ref) ==
    LET m == Cardinality(ref)
        n == Cardinality(interest)
        ratio == FDiv(I(m), I(n))
        j == CountIn(item.parts, ref)
        k == CountIn(item.parts, interest)
    IN [set |-> item.id,
        p |-> ora_p(m, j, n, k),
        overlap |-> k,
        expected |-> FMul(I(j), ratio)]

\* adjustp::adjust(&p_vals, Procedure::BenjaminiHochberg): the
\* Benjamini-Hochberg step-up procedure
adjustp_bh(p_vals) == benjamini_hochberg(p_vals)

\* fdrs if every row were given the adjusted value of the first row
OraFdrsOfFirstRow(partials) ==
    LET adj == adjustp_bh([x \in 1..Len(partials) |-> partials[x].p])
    IN [x \in 1..Len(partials) |-> FMul(adj[1], I(2))]
\* fdrs: the adjusted values, each multiplied by 2.0
OraFdrs(partials) ==
    LET adj == adjustp_bh([x \in 1..Len(partials) |-> partials[x].p])
    IN [x \in 1..Len(partials) |-> FMul(adj[x], I(2))]

OraFinal(partials) ==
    LET fdrs == OraFdrs(partials)
    IN [x \in 1..Len(partials) |->
          [set |-> partials[x].set,
           p |-> partials[x].p,
           fdr |-> fdrs[x],
           overlap |-> partials[x].overlap,
           expected |-> partials[x].expected,
           enrichment_ratio |-> FDiv(I(partials[x].overlap), partials[x].expected)]]

----------------------------------------------------------------------------
(* methods/gsea.rs: values guarded by the constant 0.000001 *)

\* 0.000001 = 1 / EpsInv
EpsInv == 1000000
Eps == F(1, EpsInv)

\* An integer written in base EpsInv with signed digits, least significant
\* first, every digit but the last in [-EpsInv/2, EpsInv/2); it stands for
\* the value of a polynomial in EpsInv.
RECURSIVE PNormFrom(_, _, _)
PNormFrom(digits, i, carry) ==
    IF i > Len(digits)
    THEN IF carry = 0 THEN <<>> ELSE <<carry>>
    ELSE LET x == digits[i] + carry
             q == (x + (EpsInv \div 2)) \div EpsInv
         IN <<x - q * EpsInv>> \o PNormFrom(digits, i + 1, q)
PNorm(digits) == PNormFrom(digits, 1, 0)

PDigit(P, i) == IF i <= Len(P) THEN P[i] ELSE 0
PAdd(P, Q) ==
    PNorm([i \in 1..Max2(Len(P), Len(Q)) |-> PDigit(P, i) + PDigit(Q, i)])
PSub(P, Q) ==
    PNorm([i \in 1..Max2(Len(P), Len(Q)) |-> PDigit(P, i) - PDigit(Q, i)])
\* times k, 0 <= k
RECURSIVE PScale(_, _)
PScale(P, k) ==
    IF k < 1000 THEN PNorm([i \in 1..Len(P) |-> P[i] * k])
    ELSE PAdd(PScale(PScale(P, k \div 1000), 1000), PScale(P, k % 1000))
\* the product of a polynomial of degree 1 and one of degree 2
PMul12(U, V) ==
    PNorm(<<U[1] * V[1],
            U[1] * V[2] + U[2] * V[1],
            U[1] * V[3] + U[2] * V[2],
            U[2] * V[3]>>)
RECURSIVE PSignFrom(_, _)
PSignFrom(P, i) ==
    IF i = 0 THEN 0
    ELSE IF P[i] # 0 THEN Sgn(P[i])
    ELSE PSignFrom(P, i - 1)
PSign(P) == PSignFrom(P, Len(P))

\* The quotient x / avg of an f64 x by an average
\*     avg = s / (l as f64 + sg * 0.000001) + sg * 0.000001
\* (sg = 1: up_avg of the l values summing to s >= 0; sg = -1: down_avg of
\* the l values summing to s <= 0), kept exact as
\*     NaN | +-inf | sn * ax / (as / (l + sg * 0.000001) + 0.000001)
\* with ax = |x| and as = |s| finite.
QNaN == [c |-> "nan", sn |-> 0, ax |-> I(0), as |-> I(0), l |-> 1, sg |-> 1]
QInf(sn) == [c |-> "inf", sn |-> sn, ax |-> I(0), as |-> I(0), l |-> 1, sg |-> 1]
QZero == [c |-> "fin", sn |-> 0, ax |-> I(0), as |-> I(0), l |-> 1, sg |-> 1]

QDivAvg(x, s, l, sg) ==
    IF IsNaN(x) \/ IsNaN(s) THEN QNaN
    ELSE IF IsInf(s) THEN (IF IsInf(x) THEN QNaN ELSE QZero)
    ELSE IF IsInf(x) THEN QInf(x[1] * sg)
    ELSE IF x[1] = 0 THEN QZero
    ELSE [c |-> "fin", sn |-> Sgn(x[1]) * sg, ax |-> FAbs(x), as |-> FAbs(s),
          l |-> l, sg |-> sg]

QGeqZero(q) == q.c # "nan" /\ q.sn >= 0      \* q >= 0.0
QLtZero(q) == q.c # "nan" /\ q.sn < 0        \* q < 0.0
QGtZero(q) == q.c # "nan" /\ q.sn > 0        \* q > 0.0

\* the sign of |a| - |b| for finite a and b:
\* |q| = ax * EpsInv * (l * EpsInv + sg) / (as * EpsInv^2 + l * EpsInv + sg)
QMagPoly(a, b) ==
    PScale(PScale(PScale(
        PMul12(<<a.sg, a.l>>, <<b.as[2] * b.sg, b.as[2] * b.l, b.as[1]>>),
        a.ax[1]), a.as[2]), b.ax[2])
QMagCmp(a, b) == PSign(PSub(QMagPoly(a, b), QMagPoly(b, a)))

\* a.abs() >= b.abs()
QAbsGeq(a, b) ==
    /\ a.c # "nan" /\ b.c # "nan"
    /\ \/ a.c = "inf"
       \/ b.c = "fin" /\ QMagCmp(a, b) >= 0

----------------------------------------------------------------------------
(* methods/gsea.rs *)

RECURSIVE IntPow(_, _)
IntPow(a, e) == IF e = 0 THEN 1 ELSE a * IntPow(a, e - 1)
\* x.abs().powf(p), for an integer-valued rank x and an integer power p
AbsPow(x, p) == I(IntPow(Abs(x), p))

\* analyte_list.sort_by(|a, b| b.rank.partial_cmp(&a.rank)): stable,
\* descending by rank
RECURSIVE InsertRanked(_, _)
InsertRanked(s, item) ==
    IF s = <<>> THEN <<item>>
    ELSE IF Head(s).rank >= item.rank THEN <<Head(s)>> \o InsertRanked(Tail(s), item)
    ELSE <<item>> \o s
RECURSIVE SortByRankDesc(_)
SortByRankDesc(list) ==
    IF list = <<>> THEN <<>>
    ELSE InsertRanked(SortByRankDesc(SubSeq(list, 1, Len(list) - 1)), list[Len(list)])

\* RankListItem::to_vecs
ToVecs(list) ==
    <<[x \in 1..Len(list) |-> list[x].analyte], [x \in 1..Len(list) |-> list[x].rank]>>

\* usize arithmetic, at the width UsizeModulus = 2^w
UsizeModulus == 256
WrappingSub(a, b) == (a - b) % UsizeModulus

\* temp_n of a permutation: the new ranks at the positions that now carry hits
PermNr(has, new_ranks, order) ==
    FSum([x \in 1..Len(has) |-> IF has[order[x]] THEN new_ranks[x] ELSE I(0)])

EsStep(has, new_ranks, order, inverse_size_dif, inv_nr, is_perm, x, st) ==
    LET hit == has[order[x]]
        sum_hits == IF hit THEN FAdd(st.sum_hits, new_ranks[x]) ELSE st.sum_hits
        hits == IF hit THEN st.hits + 1 ELSE st.hits
        sum_miss == IF hit THEN st.sum_miss ELSE st.sum_miss + 1
        es == FSub(FMul(sum_hits, inv_nr), FMul(I(sum_miss), inverse_size_dif))
        bigger == FGt(FAbs(es), FAbs(st.max_score))
    IN [max_score |-> IF bigger THEN es ELSE st.max_score,
        hits |-> hits,
        max_hits |-> IF bigger THEN hits ELSE st.max_hits,
        sum_hits |-> sum_hits,
        sum_miss |-> sum_miss,
        running_sum |-> IF is_perm THEN st.running_sum ELSE Append(st.running_sum, es)]

RECURSIVE EsLoop(_, _, _, _, _, _, _)
EsLoop(has, new_ranks, order, inverse_size_dif, inv_nr, is_perm, x) ==
    IF x = 0
    THEN [max_score |-> I(0), hits |-> 0, max_hits |-> 0, sum_hits |-> I(0),
          sum_miss |-> 0, running_sum |-> <<>>]
    ELSE EsStep(has, new_ranks, order, inverse_size_dif, inv_nr, is_perm, x,
                EsLoop(has, new_ranks, order, inverse_size_dif, inv_nr, is_perm, x - 1))

\* (max_score, leading edge, running_sum)
enrichment_score(has, new_ranks, order, inverse_size_dif, inverse_nr, is_perm) ==
    LET inv_nr == IF is_perm THEN FDiv(I(1), PermNr(has, new_ranks, order))
                  ELSE inverse_nr
        st == EsLoop(has, new_ranks, order, inverse_size_dif, inv_nr, is_perm, Len(has))
    IN <<st.max_score,
         IF FGt(st.max_score, I(0)) THEN st.max_hits
         ELSE Len(st.running_sum) - st.max_hits,
         st.running_sum>>

\* The one f64 operation whose operand order the code leaves to the
\* scheduler is the parallel sum of up and of down.  There the partial sums
\* round to nearest, ties to even, as every f64 addition does, at a
\* significand of SigBits bits.
SigBits == 3
RECURSIVE RoundScaled(_, _, _, _)
RoundScaled(a, d, up, dn) ==
    IF a >= d * IntPow(2, SigBits) THEN RoundScaled(a, 2 * d, 2 * up, dn)
    ELSE IF a < d * IntPow(2, SigBits - 1) THEN RoundScaled(2 * a, d, up, 2 * dn)
    ELSE LET q == a \div d
             r == a % d
             m == IF 2 * r > d \/ (2 * r = d /\ q % 2 = 1) THEN q + 1 ELSE q
         IN F(m * up, dn)
RoundF(x) ==
    IF ~IsFinite(x) \/ x[1] = 0 THEN x
    ELSE LET y == RoundScaled(Abs(x[1]), x[2], 1, 1)
         IN <<Sgn(x[1]) * y[1], y[2]>>
\* x + y in f64
FAddRounded(x, y) ==
    IF x = I(0) THEN y ELSE IF y = I(0) THEN x ELSE RoundF(FAdd(x, y))

\* a sequential fold from 0.0
RECURSIVE SeqSum(_)
SeqSum(s) ==
    IF s = <<>> THEN I(0)
    ELSE FAddRounded(SeqSum(SubSeq(s, 1, Len(s) - 1)), s[Len(s)])
\* par_iter().sum::<f64>(): the slice is folded in one piece, or split in
\* the middle with the sums of the halves added
RECURSIVE ParSums(_)
ParSums(s) ==
    {SeqSum(s)} \cup
    (IF Len(s) < 2 THEN {}
     ELSE LET mid == Len(s) \div 2
          IN {FAddRounded(l, r) : l \in ParSums(SubSeq(s, 1, mid)),
                                  r \in ParSums(SubSeq(s, mid + 1, Len(s)))})

Members(parts) == {parts[x] : x \in 1..Len(parts)}

\* analytes.len() - analyte_set.len(), where the subtraction does not panic
SizeDif(n, size) == IF size <= n THEN n - size ELSE WrappingSub(n, size)

GseaOverlap(names, analyte_set) ==
    Cardinality({j \in 1..Len(names) : names[j] \in analyte_set})
GseaNr(names, scores, analyte_set, p) ==
    FSum([j \in 1..Len(names) |->
            IF names[j] \in analyte_set THEN AbsPow(scores[j], p) ELSE I(0)])

\* the p value with the count of the values strictly beyond real_es
SetPStrict(real_es, es_iter) ==
    LET Up(x) == FGeq(x, I(0))
        Down(x) == FLt(x, I(0))
        Beyond(x) == FGt(FAbs(x), FAbs(real_es))
        side == IF FGeq(real_es, I(0)) THEN SelectSeq(es_iter, Up)
                ELSE SelectSeq(es_iter, Down)
        tot == Len(side)
    IN IF tot # 0 THEN F(Len(SelectSeq(side, Beyond)), tot) ELSE I(0)
\* the p value of a scored set
SetP(real_es, es_iter) ==
    LET Up(x) == FGeq(x, I(0))
        Down(x) == FLt(x, I(0))
        AtLeast(x) == FGeq(FAbs(x), FAbs(real_es))
        side == IF FGeq(real_es, I(0)) THEN SelectSeq(es_iter, Up)
                ELSE SelectSeq(es_iter, Down)
        tot == Len(side)
    IN IF tot # 0 THEN F(Len(SelectSeq(side, AtLeast)), tot) ELSE I(0)

UpOf(es_iter) == LET Up(x) == FGeq(x, I(0)) IN SelectSeq(es_iter, Up)
DownOf(es_iter) == LET Down(x) == FLeq(x, I(0)) IN SelectSeq(es_iter, Down)

\* es_iter: one enrichment_score per row of the table, collected by index
EsIter(has_analyte, new_ranks, permutations_vec, inverse_size_dif, inverse_nr) ==
    [x \in 1..Len(permutations_vec) |->
        enrichment_score(has_analyte, new_ranks, permutations_vec[x],
                         inverse_size_dif, inverse_nr, TRUE)[1]]

\* the scores of the permutations for a set, as analyte_set_p computes them
SetEsIter(names, scores, item, p, permutations_vec) ==
    LET analyte_set == Members(item.parts)
    IN EsIter([j \in 1..Len(names) |-> names[j] \in analyte_set],
              [j \in 1..Len(scores) |-> AbsPow(scores[j], p)],
              permutations_vec,
              FDiv(I(1), I(SizeDif(Len(names), Cardinality(analyte_set)))),
              FDiv(I(1), GseaNr(names, scores, analyte_set, p)))

\* analyte_set_p past the subtraction of line 119; up_sum and down_sum are
\* the values the two parallel sums returned
analyte_set_p(names, scores, item, p, permutations_vec, cfg, up_sum, down_sum) ==
    LET analyte_set == Members(item.parts)
        inverse_size_dif ==
            FDiv(I(1), I(SizeDif(Len(names), Cardinality(analyte_set))))
        n_r == GseaNr(names, scores, analyte_set, p)
        overlap == GseaOverlap(names, analyte_set)
    IN IF overlap < cfg.min_overlap \/ overlap > cfg.max_overlap
       THEN [set |-> item.id, p |-> I(1), nes |-> QZero, es |-> I(0),
             leading_edge |-> 0, running_sum |-> <<>>, nes_iter |-> <<>>]
       ELSE LET inverse_nr == FDiv(I(1), n_r)
                original_order == [j \in 1..Len(names) |-> j]
                has_analyte == [j \in 1..Len(names) |-> names[j] \in analyte_set]
                new_ranks == [j \in 1..Len(scores) |-> AbsPow(scores[j], p)]
                real == enrichment_score(has_analyte, new_ranks, original_order,
                                         inverse_size_dif, inverse_nr, FALSE)
                real_es == real[1]
                es_iter == EsIter(has_analyte, new_ranks, permutations_vec,
                                  inverse_size_dif, inverse_nr)
                up == UpOf(es_iter)
                down == DownOf(es_iter)
                nes_es == [x \in 1..Len(up) |-> QDivAvg(up[x], up_sum, Len(up), 1)]
                          \o [x \in 1..Len(down) |->
                                QDivAvg(FNeg(down[x]), down_sum, Len(down), -1)]
                norm_es == IF FGeq(real_es, I(0))
                           THEN (IF up = <<>> THEN QZero
                                 ELSE QDivAvg(real_es, up_sum, Len(up), 1))
                           ELSE IF down = <<>> THEN QZero
                           ELSE QDivAvg(FNeg(real_es), down_sum, Len(down), -1)
            IN [set |-> item.id, p |-> SetP(real_es, es_iter), nes |-> norm_es,
                es |-> real_es, leading_edge |-> real[2],
                running_sum |-> real[3], nes_iter |-> nes_es]

\* provided_permutations.unwrap_or(made); None is <<>>, Some(t) is <<t>>
UnwrapOr(provided, made) == IF provided = <<>> THEN made ELSE provided[1]

RECURSIVE FlatMap(_, _)
FlatMap(rows, x) ==
    IF x = 0 THEN <<>> ELSE FlatMap(rows, x - 1) \o rows[x].nes_iter

\* the quotient of the FDR of one item
RawFdr(nes, null_distribution, observed_distribution) ==
    LET AtLeast(x) == QAbsGeq(x, nes)
        top_side == IF QGtZero(nes) THEN SelectSeq(null_distribution, QGeqZero)
                    ELSE SelectSeq(null_distribution, QLtZero)
        top_len == IF top_side = <<>> THEN Eps ELSE I(Len(top_side))
        top_val == I(Len(SelectSeq(top_side, AtLeast)))
        bottom_side == IF QGeqZero(nes) THEN SelectSeq(observed_distribution, QGeqZero)
                       ELSE SelectSeq(observed_distribution, QLtZero)
        bottom_len == IF bottom_side = <<>> THEN Eps ELSE I(Len(bottom_side))
        bottom_val == I(Len(SelectSeq(bottom_side, AtLeast)))
    IN FDiv(FMul(top_val, bottom_len), FMul(bottom_val, top_len))
\* the replacement of the values above 1 alone
ClampFdrKeepNaN(fdr) == IF FGt(fdr, I(1)) THEN I(1) ELSE fdr
\* NaN becomes 0.0 and a value above 1.0 becomes 1.0
ClampFdr(fdr) == IF IsNaN(fdr) THEN I(0) ELSE IF FGt(fdr, I(1)) THEN I(1) ELSE fdr

\* the loop of gsea over partial_results
GseaFinal(rows) ==
    LET null_distribution == FlatMap(rows, Len(rows))
        observed_distribution == [x \in 1..Len(rows) |-> rows[x].nes]
    IN [x \in 1..Len(rows) |->
          [set |-> rows[x].set, p |-> rows[x].p,
           fdr |-> ClampFdr(RawFdr(rows[x].nes, null_distribution,
                                   observed_distribution)),
           es |-> rows[x].es, nes |-> rows[x].nes,
           leading_edge |-> rows[x].leading_edge,
           running_sum |-> rows[x].running_sum]]

----------------------------------------------------------------------------
(* Bounds of the stat::adjust inputs *)

MaxPVals == 3      \* longest p-value vector
PGrid == 4         \* p-values are the multiples of 1/PGrid in [0, 1]

PValues == {F(i, PGrid) : i \in 0..PGrid}
PVectors == UNION {[1..m -> PValues] : m \in 0..MaxPVals}

BhOff == bh_pc = "off" /\ bh_method = "None" /\ bh_p = <<>> /\ bh_out = <<>>
HyOff == hy_pc = "off" /\ hy_args = <<>> /\ hy_out = NaN
GsOff ==
    /\ gs_pc = "off" /\ overflow_checks = FALSE /\ analyte_list = <<>>
    /\ gsea_gmt = <<>> /\ gsea_config = <<>> /\ provided_permutations = <<>>
    /\ permutations = <<>> /\ analytes = <<>> /\ ranks = <<>> /\ gs_todo = {}
    /\ partial_results = <<>> /\ final_gsea = <<>>
OraOff ==
    /\ ora_pc = "off" /\ interest_list = {} /\ reference = {} /\ gmt = <<>>
    /\ config = <<>> /\ ora_todo = {} /\ res = <<>> /\ final_res = <<>>
NtaOff ==
    /\ nta_pc = "off" /\ nta_config = <<>> /\ reverse_map = <<>>
    /\ pt = <<>> /\ pt1 = <<>> /\ nta_result = <<>>
ClOff == cl_pc = "off" /\ cl_lists = <<>> /\ cl_method = <<>> /\ cl_out = <<>>
CgOff == cg_pc = "off" /\ cg_gmts = <<>> /\ cg_out = <<>>
MpOff == mp_pc = "off" /\ mp_args = <<>> /\ temp_permutations = <<>>
MtOff == mt_pc = "off" /\ mt_vals = <<>> /\ mt_out = <<>>
MmOff ==
    /\ mm_pc = "off" /\ mm_call = <<>> /\ mm_jobs = <<>> /\ phash = <<>>
    /\ mm_results = <<>>
RestOff == MpOff /\ MtOff /\ MmOff
MoOff == NtaOff /\ ClOff /\ CgOff /\ RestOff

BhInit ==
    /\ bh_pc = "call"
    /\ bh_method \in {"BH", "None"}
    /\ bh_p \in PVectors
    /\ bh_out = <<>>
    /\ HyOff /\ OraOff /\ GsOff /\ MoOff

BhAdjust ==
    /\ bh_pc = "call"
    /\ bh_out' = adjust(bh_p, bh_method)
    /\ bh_pc' = "done"
    /\ UNCHANGED <<bh_method, bh_p, hyVars, oraVars, gsVars, moVars>>

SpecBH == BhInit /\ [][BhAdjust]_vars

----------------------------------------------------------------------------
(* Bounds of the ora_p arguments *)

MaxPop == 4        \* largest population M; K ranges to MaxPop + 1

HyInit ==
    /\ hy_pc = "call"
    /\ hy_args \in {a \in (1..MaxPop) \X (0..MaxPop) \X (0..MaxPop) \X (0..(MaxPop + 1)) :
                        a[2] <= a[1] /\ a[3] <= a[1]}
    /\ hy_out = NaN
    /\ BhOff /\ OraOff /\ GsOff /\ MoOff

HyCall ==
    /\ hy_pc = "call"
    /\ hy_out' = ora_p(hy_args[1], hy_args[2], hy_args[3], hy_args[4])
    /\ hy_pc' = "done"
    /\ UNCHANGED <<hy_args, bhVars, oraVars, gsVars, moVars>>

SpecOraP == HyInit /\ [][HyCall]_vars

----------------------------------------------------------------------------
(* Bounds of the get_ora inputs *)

NumAnalytes == 3              \* analytes are named 1..NumAnalytes
OraAnalytes == 1..NumAnalytes
OraSetIds == <<"s1", "s2">>   \* the ids of the sets of gmt, in input order
MaxParts == 3                 \* longest member list
MaxMinOverlap == 2            \* config.min_overlap ranges over 0..MaxMinOverlap
CfgMinSetSize == 1            \* config.min_set_size
CfgMaxSetSize == 2            \* config.max_set_size

\* member lists, duplicates allowed; listed in non-decreasing order of name
OraParts ==
    UNION {{q \in [1..l -> OraAnalytes] : \A x \in 1..(l - 1) : q[x] <= q[x + 1]} :
              l \in 0..MaxParts}

\* the reference and the interest list are filtered by the caller: the
\* interest list is a non-empty subset of the reference
OraInit ==
    /\ ora_pc = "scoring"
    /\ \E r \in OraAnalytes : \E i \in 1..r :
          reference = 1..r /\ interest_list = 1..i
    /\ gmt \in {[x \in 1..Len(OraSetIds) |-> [id |-> OraSetIds[x], parts |-> q[x]]] :
                  q \in [1..Len(OraSetIds) -> OraParts]}
    /\ config \in {[min_overlap |-> o, min_set_size |-> CfgMinSetSize,
                     max_set_size |-> CfgMaxSetSize] : o \in 0..MaxMinOverlap}
    /\ ora_todo = 1..Len(OraSetIds)
    /\ res = <<>>
    /\ final_res = <<>>
    /\ BhOff /\ HyOff /\ GsOff /\ MoOff

\* one iteration of gmt.par_iter().for_each: the item is scored on the
\* worker's own stack and pushed while the worker holds the lock
OraScore(x) ==
    /\ ora_pc = "scoring"
    /\ x \in ora_todo
    /\ ora_todo' = ora_todo \ {x}
    /\ IF /\ InSizeRange(gmt[x], config)
          /\ CountIn(gmt[x].parts, interest_list) >= config.min_overlap
       THEN IF HypNewFails(Cardinality(reference), CountIn(gmt[x].parts, reference),
                           Cardinality(interest_list))
            THEN ora_pc' = "panic" /\ UNCHANGED res
            ELSE /\ res' = Append(res, PartialOf(gmt[x], interest_list, reference))
                 /\ UNCHANGED ora_pc
       ELSE UNCHANGED <<ora_pc, res>>
    /\ UNCHANGED <<interest_list, reference, gmt, config, final_res, bhVars, hyVars, gsVars, moVars>>

\* after the parallel loop: the FDR step and the returned vector
OraFinish ==
    /\ ora_pc = "scoring"
    /\ ora_todo = {}
    /\ final_res' = OraFinal(res)
    /\ ora_pc' = "done"
    /\ UNCHANGED <<interest_list, reference, gmt, config, ora_todo, res, bhVars, hyVars, gsVars, moVars>>

OraNext == (\E x \in 1..Len(OraSetIds) : OraScore(x)) \/ OraFinish

Spec == OraInit /\ [][OraNext]_vars

----------------------------------------------------------------------------
(* Bounds of the gsea inputs *)

\* the rank list: the analytes in input order, each with a rank of GsScores
RankedAnalytes == <<1, 2, 3>>
GsScores == {-1, 0, 2}
\* the member lists of the sets, which the gmt holds in this order; 4 is
\* not in the rank list
GsParts == <<<<1>>, <<1, 2>>, <<1, 2, 3>>, <<1, 2, 4>>, <<1, 2, 3, 4>>>>
GsSetIds == <<"s1", "s2">>
GsMinOverlaps == {1, 2}
CfgMaxOverlap == 2
CfgPermutations == 1
GsPowers == {1, 2}
\* the power gsea passes to analyte_set_p
GseaExponent == 1

\* every order of the indices 1..n (the code's 0..n-1)
Orders(n) == {o \in [1..n -> 1..n] : \A x, y \in 1..n : x # y => o[x] # o[y]}
\* the tables a caller supplies: no row at all, or one of two tables of
\* three rows
GsTables ==
    {<<>>,
     <<<<1, 2, 3>>, <<1, 3, 2>>, <<2, 3, 1>>>>,
     <<<<2, 1, 3>>, <<2, 3, 1>>, <<3, 2, 1>>>>}

GsInit ==
    /\ gs_pc = "start"
    /\ \E r \in [1..Len(RankedAnalytes) -> GsScores] :
         analyte_list = [x \in 1..Len(RankedAnalytes) |->
                            [analyte |-> RankedAnalytes[x], rank |-> r[x]]]
    /\ \E pick \in [1..Len(GsSetIds) -> 1..Len(GsParts)] :
         /\ \A x, y \in 1..Len(GsSetIds) : x < y => pick[x] <= pick[y]
         /\ gsea_gmt = [x \in 1..Len(GsSetIds) |->
                            [id |-> GsSetIds[x], parts |-> GsParts[pick[x]]]]
    \* the two kinds of build differ only on a set larger than the rank list
    /\ overflow_checks \in
         IF \E x \in 1..Len(gsea_gmt) :
               Cardinality(Members(gsea_gmt[x].parts)) > Len(RankedAnalytes)
         THEN BOOLEAN ELSE {FALSE}
    /\ \E mo \in GsMinOverlaps, pw \in GsPowers :
         gsea_config = [p |-> pw, min_overlap |-> mo, max_overlap |-> CfgMaxOverlap,
                        permutations |-> CfgPermutations]
    /\ provided_permutations \in {<<>>} \cup {<<t>> : t \in GsTables}
    /\ permutations = <<>> /\ analytes = <<>> /\ ranks = <<>> /\ gs_todo = {}
    /\ partial_results = <<>> /\ final_gsea = <<>>
    /\ BhOff /\ HyOff /\ OraOff /\ MoOff

\* gsea up to the parallel map: the sort, to_vecs, and the table, which
\* make_permutations draws before unwrap_or looks at the supplied one
GseaStart ==
    /\ gs_pc = "start"
    /\ LET sorted == SortByRankDesc(analyte_list)
       IN /\ analytes' = ToVecs(sorted)[1]
          /\ ranks' = ToVecs(sorted)[2]
          /\ analyte_list' = sorted
    /\ \E made \in [1..gsea_config.permutations -> Orders(Len(analyte_list))] :
         permutations' = UnwrapOr(provided_permutations, made)
    /\ gs_todo' = 1..Len(gsea_gmt)
    /\ partial_results' = [x \in 1..Len(gsea_gmt) |-> <<>>]
    /\ gs_pc' = "scoring"
    /\ UNCHANGED <<overflow_checks, gsea_gmt, gsea_config, provided_permutations,
                   final_gsea, bhVars, hyVars, oraVars, moVars>>

\* one call of analyte_set_p by a worker of gmt.par_iter().map(); collect
\* puts the result at the index of the set
GseaScoreSet(x) ==
    /\ gs_pc = "scoring"
    /\ x \in gs_todo
    /\ LET item == gsea_gmt[x]
           size == Cardinality(Members(item.parts))
           overlap == GseaOverlap(analytes, Members(item.parts))
           scored == overlap >= gsea_config.min_overlap /\ overlap <= gsea_config.max_overlap
           es_iter == SetEsIter(analytes, ranks, item, GseaExponent, permutations)
       IN IF size > Len(analytes) /\ overflow_checks
          THEN /\ gs_pc' = "panic"
               /\ UNCHANGED <<gs_todo, partial_results>>
          ELSE /\ \E up_sum \in (IF scored THEN ParSums(UpOf(es_iter)) ELSE {I(0)}),
                     down_sum \in (IF scored THEN ParSums(DownOf(es_iter)) ELSE {I(0)}) :
                    partial_results' =
                        [partial_results EXCEPT ![x] =
                            analyte_set_p(analytes, ranks, item, GseaExponent,
                                          permutations, gsea_config, up_sum, down_sum)]
               /\ gs_todo' = gs_todo \ {x}
               /\ UNCHANGED gs_pc
    /\ UNCHANGED <<overflow_checks, analyte_list, gsea_gmt, gsea_config,
                   provided_permutations, permutations, analytes, ranks,
                   final_gsea, bhVars, hyVars, oraVars, moVars>>

\* gsea after the parallel map: the distributions and the FDR loop
GseaFinish ==
    /\ gs_pc = "scoring"
    /\ gs_todo = {}
    /\ final_gsea' = GseaFinal(partial_results)
    /\ gs_pc' = "done"
    /\ UNCHANGED <<overflow_checks, analyte_list, gsea_gmt, gsea_config,
                   provided_permutations, permutations, analytes, ranks, gs_todo,
                   partial_results, bhVars, hyVars, oraVars, moVars>>

GseaNext == GseaStart \/ (\E x \in 1..Len(GsSetIds) : GseaScoreSet(x)) \/ GseaFinish

SpecGsea == GsInit /\ [][GseaNext]_vars

----------------------------------------------------------------------------
(* C5: stat::adjust(p, BH) keeps length and index alignment, every entry   *)
(* is <= 1 and >= the raw p at its index, entries are non-decreasing in    *)
(* ascending order of p (equal p, equal adjusted value), and each entry is *)
(* the minimum over the ranks j >= rank(i) of min(1, p_(j) * m / j).       *)

\* rank of index i: its 1-based position in the ascending stable order
RankOf(p, i) ==
    Cardinality({j \in 1..Len(p) : FLt(p[j], p[i]) \/ (p[j] = p[i] /\ j <= i)})

\* min(1, p_(j) * m / j) for the index c that has rank j
BHTerm(p, c) ==
    LET t == FDiv(FMul(p[c], I(Len(p))), I(RankOf(p, c)))
    IN IF FGt(t, I(1)) THEN I(1) ELSE t

BHClosedForm(p, i) ==
    LET terms == {BHTerm(p, c) : c \in {c \in 1..Len(p) : RankOf(p, c) >= RankOf(p, i)}}
    IN CHOOSE t \in terms : \A u \in terms : FLeq(t, u)

----------------------------------------------------------------------------
(* C1: get_ora returns exactly one ORAResult per input set, result x       *)
(* carrying the id of gmt[x]; a set whose member count is below            *)
(* min_set_size or above max_set_size still has a row, with p = 1 and      *)
(* overlap = 0.                                                            *)
C1_OneRowPerSet ==
    ora_pc = "done" =>
        /\ Len(final_res) = Len(gmt)
        /\ \A x \in 1..Len(gmt) :
              /\ final_res[x].set = gmt[x].id
              /\ ~InSizeRange(gmt[x], config) =>
                    final_res[x].p = I(1) /\ final_res[x].overlap = 0

\* what the code returns instead: one row per set that passed both filters
RowsAreTheScoredSets ==
    ora_pc = "done" =>
        /\ \A x \in 1..Len(final_res) : \E y \in 1..Len(gmt) :
              /\ final_res[x].set = gmt[y].id
              /\ InSizeRange(gmt[y], config)
              /\ CountIn(gmt[y].parts, interest_list) >= config.min_overlap
        /\ Len(final_res) =
              Cardinality({y \in 1..Len(gmt) :
                  /\ InSizeRange(gmt[y], config)
                  /\ CountIn(gmt[y].parts, interest_list) >= config.min_overlap})

(* C2: for every set within the size range, with J its number of members   *)
(* in the reference and K its number of members in the interest set, the   *)
(* result's p is ora_p(|R|, J, |I|, K) if K >= min_overlap and 1 if        *)
(* K < min_overlap.                                                        *)

C2_PByOverlap ==
    ora_pc = "done" =>
        \A x \in 1..Len(gmt) :
            InSizeRange(gmt[x], config) =>
                LET J == Cardinality(Members(gmt[x].parts) \cap reference)
                    K == Cardinality(Members(gmt[x].parts) \cap interest_list)
                IN \E y \in 1..Len(final_res) :
                      /\ final_res[y].set = gmt[x].id
                      /\ final_res[y].p =
                            IF K >= config.min_overlap
                            THEN ora_p(Cardinality(reference), J,
                                       Cardinality(interest_list), K)
                            ELSE I(1)

(* C3: the fdr of every returned row is the Benjamini-Hochberg adjusted    *)
(* value of the row's p over the p-values of all returned rows, with no    *)
(* further factor, and lies in [0, 1].                                     *)
C3_FdrIsBH ==
    ora_pc = "done" =>
        LET ps == [x \in 1..Len(final_res) |-> final_res[x].p]
        IN \A x \in 1..Len(final_res) :
              /\ final_res[x].fdr = BHClosedForm(ps, x)
              /\ FGeq(final_res[x].fdr, I(0))
              /\ FLeq(final_res[x].fdr, I(1))

----------------------------------------------------------------------------
(* C4: for M >= 1, 0 <= J <= M, 0 <= N <= M, K >= 0, ora_p(M, J, N, K) is   *)
(* the hypergeometric upper tail P(X >= K): it lies in [0, 1], is          *)
(* non-increasing in K, and ora_p(M, J, N, 0) = 1.                         *)

\* P(X >= k) summed from the probability mass function
UpperTail(m, j, n, k) == HypPmfSum(m, j, n, k, Min2(j, n))

C4_OraPUpperTail ==
    hy_pc = "done" =>
        LET m == hy_args[1]
            j == hy_args[2]
            n == hy_args[3]
            k == hy_args[4]
        IN /\ hy_out = UpperTail(m, j, n, k)
           /\ FGeq(hy_out, I(0)) /\ FLeq(hy_out, I(1))
           /\ FLeq(ora_p(m, j, n, k + 1), hy_out)
           /\ k = 0 => hy_out = I(1)

\* what the code does satisfy: the upper tail for K >= 1, and 0 for K = 0
OraPFromOne ==
    hy_pc = "done" =>
        /\ hy_args[4] >= 1 =>
              hy_out = UpperTail(hy_args[1], hy_args[2], hy_args[3], hy_args[4])
        /\ hy_args[4] = 0 => hy_out = I(0)

----------------------------------------------------------------------------
(* gsea: the finished call *)

GsDone == gs_pc = "done"
\* the overlap of set x with the rank list, by the definition of the spec
OverlapOf(x) ==
    Cardinality(Members(gsea_gmt[x].parts)
                \cap {analyte_list[j].analyte : j \in 1..Len(analyte_list)})
Scored(x) ==
    OverlapOf(x) >= gsea_config.min_overlap /\ OverlapOf(x) <= gsea_config.max_overlap

(***************************************************************************)
(* C6: for every rank list of n analytes and every set, also one with as   *)
(* many or more distinct members than n, gsea returns a result classified  *)
(* by the overlap k: the terminal record (p = 1, es = 0, nes = 0,          *)
(* leading_edge = 0, empty running_sum) if k < min_overlap or              *)
(* k > max_overlap, and a scored record whose running_sum has length n if  *)
(* min_overlap <= k <= max_overlap.                                        *)
(***************************************************************************)
Classified(x) ==
    IF Scored(x)
    THEN Len(final_gsea[x].running_sum) = Len(analyte_list)
    ELSE /\ final_gsea[x].p = I(1)
         /\ final_gsea[x].es = I(0)
         /\ final_gsea[x].nes = QZero
         /\ final_gsea[x].leading_edge = 0
         /\ final_gsea[x].running_sum = <<>>
C6_ClassifiedByOverlap ==
    /\ gs_pc # "panic"
    /\ GsDone => \A x \in 1..Len(gsea_gmt) : Classified(x)

\* a call that returns classifies every set by its overlap
ClassifiedWhenReturned == GsDone => \A x \in 1..Len(gsea_gmt) : Classified(x)

(***************************************************************************)
(* C7: the p of a scored set is the number of permutation extrema on the   *)
(* side of ES (x >= 0 if ES >= 0, x < 0 otherwise) with |x| >= |ES|,       *)
(* divided by the number of extrema on that side; it is 0 if the side is   *)
(* empty, as with an empty table, and it lies in [0, 1].                   *)
(***************************************************************************)
ExtremaOf(x) == SetEsIter(analytes, ranks, gsea_gmt[x], GseaExponent, permutations)
SameSide(x) ==
    {i \in 1..Len(permutations) :
        IF FGeq(final_gsea[x].es, I(0)) THEN FGeq(ExtremaOf(x)[i], I(0))
        ELSE FLt(ExtremaOf(x)[i], I(0))}
AsExtreme(x) ==
    {i \in SameSide(x) : FGeq(FAbs(ExtremaOf(x)[i]), FAbs(final_gsea[x].es))}
C7_PValue ==
    GsDone =>
        \A x \in 1..Len(gsea_gmt) :
            Scored(x) =>
                /\ final_gsea[x].p =
                       IF SameSide(x) = {} THEN I(0)
                       ELSE F(Cardinality(AsExtreme(x)), Cardinality(SameSide(x)))
                /\ FLeq(I(0), final_gsea[x].p) /\ FLeq(final_gsea[x].p, I(1))
\* a scored set with a proper fraction, and one whose side is empty though
\* the table is not
C7_Witness ==
    /\ GsDone
    /\ \E x \in 1..Len(gsea_gmt) :
         /\ Scored(x)
         /\ FLt(I(0), final_gsea[x].p) /\ FLt(final_gsea[x].p, I(1))
    /\ \E x \in 1..Len(gsea_gmt) :
         Scored(x) /\ SameSide(x) = {} /\ permutations # <<>>

(***************************************************************************)
(* C8: every returned GSEAResult, of a scored or of a filtered set, also   *)
(* when a side of the null or of the observed distribution is empty, has   *)
(* an fdr in [0, 1]: not NaN, not negative, not infinite.                  *)
(***************************************************************************)
C8_FdrInUnitInterval ==
    GsDone =>
        \A x \in 1..Len(final_gsea) :
            /\ IsFinite(final_gsea[x].fdr)
            /\ FLeq(I(0), final_gsea[x].fdr) /\ FLeq(final_gsea[x].fdr, I(1))
RawFdrOf(x) ==
    RawFdr(partial_results[x].nes, FlatMap(partial_results, Len(partial_results)),
           [y \in 1..Len(partial_results) |-> partial_results[y].nes])
\* a row whose quotient is NaN beside a row with an fdr strictly between
\* 0 and 1
C8_Witness ==
    /\ GsDone
    /\ \E x \in 1..Len(final_gsea) : IsNaN(RawFdrOf(x)) /\ final_gsea[x].fdr = I(0)
    /\ \E x \in 1..Len(final_gsea) :
         FLt(I(0), final_gsea[x].fdr) /\ FLt(final_gsea[x].fdr, I(1))
\* a row whose quotient is above 1
FdrAboveOneReached ==
    GsDone /\ \E x \in 1..Len(final_gsea) : FGt(RawFdrOf(x), I(1)) /\ final_gsea[x].fdr = I(1)

(***************************************************************************)
(* C9: with the same rank list, sets, config and caller-supplied table,    *)
(* every call of gsea returns the same es, nes and p for every set,        *)
(* whatever the scheduling of the workers over sets and permutations, and  *)
(* scores with the supplied table: every returned row equals the row of    *)
(* the run that scores with the supplied table and adds left to right.     *)
(***************************************************************************)
SequentialRow(x) ==
    LET es_iter == SetEsIter(analytes, ranks, gsea_gmt[x], GseaExponent,
                             provided_permutations[1])
    IN analyte_set_p(analytes, ranks, gsea_gmt[x], GseaExponent,
                     provided_permutations[1], gsea_config,
                     SeqSum(UpOf(es_iter)), SeqSum(DownOf(es_iter)))
C9_SameResultEveryRun ==
    GsDone /\ provided_permutations # <<>> =>
        \A x \in 1..Len(gsea_gmt) :
            /\ final_gsea[x].es = SequentialRow(x).es
            /\ final_gsea[x].nes = SequentialRow(x).nes
            /\ final_gsea[x].p = SequentialRow(x).p

\* es and p, and the table, do not depend on the run
EsAndPSameEveryRun ==
    GsDone /\ provided_permutations # <<>> =>
        /\ permutations = provided_permutations[1]
        /\ \A x \in 1..Len(gsea_gmt) :
            /\ final_gsea[x].es = SequentialRow(x).es
            /\ final_gsea[x].p = SequentialRow(x).p

(***************************************************************************)
(* C10: gsea weights position i by |scores[i]|^p with p the exponent of    *)
(* the configuration: the running sum, es and the permutation scores (and  *)
(* with them the p-value) are those of the weights |scores[i]|^config.p.   *)
(***************************************************************************)
ConfiguredRow(x) ==
    analyte_set_p(analytes, ranks, gsea_gmt[x], gsea_config.p, permutations,
                  gsea_config, I(0), I(0))
C10_WeightsUseConfigP ==
    GsDone =>
        \A x \in 1..Len(gsea_gmt) :
            /\ final_gsea[x].running_sum = ConfiguredRow(x).running_sum
            /\ final_gsea[x].es = ConfiguredRow(x).es
            /\ final_gsea[x].p = ConfiguredRow(x).p

\* with the default exponent 1 the weights are the configured ones
WeightsAtDefaultP == gsea_config.p = GseaExponent => C10_WeightsUseConfigP

----------------------------------------------------------------------------
(* get_ora: the returned rows *)

OraDone == ora_pc = "done"
\* the index in gmt of the set of row y (the ids of gmt are distinct)
SetOfRow(y) == CHOOSE x \in 1..Len(gmt) : gmt[x].id = final_res[y].set
\* J and K of the spec: distinct members in the reference, in the interest set
DistinctJ(x) == Cardinality(Members(gmt[x].parts) \cap reference)
DistinctK(x) == Cardinality(Members(gmt[x].parts) \cap interest_list)
HasRepeat(parts) == Cardinality(Members(parts)) < Len(parts)

(***************************************************************************)
(* C11: every row returned by get_ora has expected = J * |I| / |R|, that   *)
(* is expected * |R| = J * |I|, and enrichment_ratio = K / expected with   *)
(* K the overlap of the row.                                               *)
(***************************************************************************)
C11_Expected ==
    OraDone =>
        \A y \in 1..Len(final_res) :
            /\ FMul(final_res[y].expected, I(Cardinality(reference))) =
                   I(DistinctJ(SetOfRow(y)) * Cardinality(interest_list))
            /\ final_res[y].enrichment_ratio =
                   FDiv(I(final_res[y].overlap), final_res[y].expected)

\* what the code returns: expected = j * |R| / |I|, with j the count of the
\* member occurrences in the reference
ExpectedIsInverted ==
    OraDone =>
        \A y \in 1..Len(final_res) :
            /\ FMul(final_res[y].expected, I(Cardinality(interest_list))) =
                   I(CountIn(gmt[SetOfRow(y)].parts, reference) * Cardinality(reference))
            /\ final_res[y].enrichment_ratio =
                   FDiv(I(final_res[y].overlap), final_res[y].expected)

(***************************************************************************)
(* C12: for fixed inputs the sequence of set ids of the returned vector    *)
(* is the same under every interleaving of the workers: the rows are in    *)
(* the order of the sets in gmt.                                           *)
(***************************************************************************)
C12_RowsInSetOrder ==
    OraDone =>
        \A y, z \in 1..Len(final_res) : y < z => SetOfRow(y) < SetOfRow(z)

(***************************************************************************)
(* C13: a repeated analyte name in a member list changes nothing: the      *)
(* overlap of a row is K = |parts \cap I|, its p and expected are those of *)
(* J = |parts \cap R| and K, J never exceeds |R| and K never exceeds |I|.  *)
(***************************************************************************)
DistinctItem(x) ==
    [id |-> gmt[x].id,
     parts |-> [z \in 1..Cardinality(Members(gmt[x].parts)) |->
                  CHOOSE a \in Members(gmt[x].parts) :
                      Cardinality({b \in Members(gmt[x].parts) : b < a}) = z - 1]]
C13_MembersAreASet ==
    /\ ora_pc # "panic"
    /\ \A y \in 1..Len(res) :
         LET x == CHOOSE x \in 1..Len(gmt) : gmt[x].id = res[y].set
         IN /\ res[y] = PartialOf(DistinctItem(x), interest_list, reference)
            /\ res[y].overlap <= Cardinality(interest_list)

\* a member list without a repeated name is scored as the set it is
NoRepeatScoredAsSet ==
    /\ (\A x \in 1..Len(gmt) : ~HasRepeat(gmt[x].parts)) => ora_pc # "panic"
    /\ \A y \in 1..Len(res) :
         LET x == CHOOSE x \in 1..Len(gmt) : gmt[x].id = res[y].set
         IN ~HasRepeat(gmt[x].parts) =>
               res[y] = PartialOf(DistinctItem(x), interest_list, reference)

----------------------------------------------------------------------------
(* methods/nta.rs *)

\* f64 operations of the random walk, each rounded to SigBits significant bits
FSubRounded(x, y) == RoundF(FSub(x, y))
FMulRounded(x, y) == RoundF(FMul(x, y))
FDivRounded(x, y) == RoundF(FDiv(x, y))

\* the flattened edge list collected into the AHashSet unique_nodes
UniqueNodes(edge_list) == UNION {Members(edge_list[e]) : e \in 1..Len(edge_list)}

\* the orders in which the AHashSet can enumerate its nodes: reverse_map
NodeOrders(nodes) ==
    {o \in [1..Cardinality(nodes) -> nodes] :
        \A x, y \in 1..Cardinality(nodes) : x # y => o[x] # o[y]}

\* node_map.get(node): the index of the node (from 1), 0 for None
NodeGet(rmap, node) ==
    IF \E x \in 1..Len(rmap) : rmap[x] = node
    THEN CHOOSE x \in 1..Len(rmap) : rmap[x] = node
    ELSE 0

\* no seed is looked up at all: the lookup that cannot fail
SeedLookupNeverFails(seeds, rmap) == FALSE
\* node_map.get(seed).unwrap() panics on a seed that is no node
SeedLookupFails(seeds, rmap) ==
    \E s \in 1..Len(seeds) : NodeGet(rmap, seeds[s]) = 0

\* node_indices
SeedIndices(seeds, rmap) == [s \in 1..Len(seeds) |-> NodeGet(rmap, seeds[s])]

\* graph: 1.0 at [n1, n2] and [n2, n1] for every edge
Graph(edge_list, rmap) ==
    [a \in 1..Len(rmap) |-> [b \in 1..Len(rmap) |->
        IF \E e \in 1..Len(edge_list) :
              \/ NodeGet(rmap, edge_list[e][1]) = a /\ NodeGet(rmap, edge_list[e][2]) = b
              \/ NodeGet(rmap, edge_list[e][1]) = b /\ NodeGet(rmap, edge_list[e][2]) = a
        THEN I(1) ELSE I(0)]]

\* de = adj_matrix.sum_axis(Axis(0)): the sums of the columns
ColumnSums(adj) ==
    [b \in 1..Len(adj) |-> SeqSum([a \in 1..Len(adj) |-> adj[a][b]])]

\* w: every column of adj_matrix divided by its sum
Transition(adj) ==
    [a \in 1..Len(adj) |-> [b \in 1..Len(adj) |->
        FDivRounded(adj[a][b], ColumnSums(adj)[b])]]

\* p0: 1.0 / num_nodes at the index of every seed, 0.0 elsewhere
RestartVector(n, seed_indices) ==
    [a \in 1..n |->
        IF \E s \in 1..Len(seed_indices) : seed_indices[s] = a
        THEN FDivRounded(I(1), I(Len(seed_indices)))
        ELSE I(0)]

\* w.dot(&pt) * (1.0 - r) + (r * &p0)
WalkStep(trans, p, p0, r) ==
    [a \in 1..Len(trans) |->
        FAddRounded(
            FMulRounded(SeqSum([b \in 1..Len(trans) |-> FMulRounded(trans[a][b], p[b])]),
                        FSubRounded(I(1), r)),
            FMulRounded(r, p0[a]))]

\* the sum of |a - b| over the two iterates
WalkDistance(p, q) ==
    SeqSum([a \in 1..Len(p) |-> FAbs(FSubRounded(p[a], q[a]))])

\* walk.sort_by(|a, b| b.1.partial_cmp(a.1).unwrap()): a stable sort of the
\* indices by probability, descending
RECURSIVE InsertWalkedAscending(_, _, _)
InsertWalkedAscending(s, i, p) ==
    IF s = <<>> THEN <<i>>
    ELSE IF FLeq(p[Head(s)], p[i]) THEN <<Head(s)>> \o InsertWalkedAscending(Tail(s), i, p)
    ELSE <<i>> \o s
RECURSIVE InsertWalked(_, _, _)
InsertWalked(s, i, p) ==
    IF s = <<>> THEN <<i>>
    ELSE IF FGeq(p[Head(s)], p[i]) THEN <<Head(s)>> \o InsertWalked(Tail(s), i, p)
    ELSE <<i>> \o s
RECURSIVE SortWalk(_, _)
SortWalk(p, k) ==
    IF k = 0 THEN <<>> ELSE InsertWalked(SortWalk(p, k - 1), k, p)

\* the vector process_nta returns: (node, probability), sorted
ProcessNta(rmap, p) ==
    LET walk == SortWalk(p, Len(p))
    IN [x \in 1..Len(walk) |-> [node |-> rmap[walk[x]], score |-> p[walk[x]]]]

\* iter().take(size)
Take(s, size) == SubSeq(s, 1, Min2(size, Len(s)))

\* the candidates of Prioritize if the test were len() <= size
CandidatesUpToSize(taken, size) ==
    [x \in 1..Cardinality({y \in 1..Len(taken) : y <= size}) |-> taken[x].node]
\* the candidates of Prioritize: the node pushed on neighborhood is pushed
\* on candidates too while neighborhood.len() < size
Candidates(taken, size) ==
    [x \in 1..Cardinality({y \in 1..Len(taken) : y < size}) |-> taken[x].node]

\* the arm NTAMethod::Prioritize(size) of get_nta
PrioritizeResult(nta_res, seeds, size) ==
    LET only_seeds == SelectSeq(nta_res, LAMBDA e : e.node \in Members(seeds))
        taken == Take(only_seeds, size)
    IN [neighborhood |-> [x \in 1..Len(taken) |-> taken[x].node],
        scores |-> [x \in 1..Len(taken) |-> taken[x].score],
        candidates |-> Candidates(taken, size)]

\* the arm NTAMethod::Expand(size) of get_nta
ExpandResult(nta_res, seeds, size) ==
    LET no_seeds == SelectSeq(nta_res, LAMBDA e : e.node \notin Members(seeds))
        taken == Take(no_seeds, size)
    IN [neighborhood |-> [x \in 1..Len(taken) |-> taken[x].node],
        scores |-> [x \in 1..Len(taken) |-> taken[x].score],
        candidates |-> <<>>]

\* the size of the method used when config.method is None
DefaultExpandSize == 10
\* config.method, with Expand(10) in the place of None
MethodOf(cfg) ==
    IF cfg.method.kind = "None" THEN [kind |-> "Expand", size |-> DefaultExpandSize]
    ELSE cfg.method

\* get_nta after process_nta has returned
NtaResultOf(cfg, rmap, p) ==
    IF MethodOf(cfg).kind = "Prioritize"
    THEN PrioritizeResult(ProcessNta(rmap, p), cfg.seeds, MethodOf(cfg).size)
    ELSE ExpandResult(ProcessNta(rmap, p), cfg.seeds, MethodOf(cfg).size)

----------------------------------------------------------------------------
(* Bounds of the get_nta inputs *)

MaxNtaSize == 2               \* Prioritize(k) and Expand(k) with k in 0..MaxNtaSize
NtaEdgeLists ==
    {<<<<"a", "b">>>>,
     <<<<"a", "b">>, <<"b", "c">>>>,
     <<<<"a", "a">>, <<"a", "b">>, <<"b", "c">>>>}
\* the seed lists: at most two ids, "x" being the id of no node
NtaSeedIds == {"a", "b", "c", "x"}
NtaSeedLists == {<<>>} \cup {<<s>> : s \in NtaSeedIds}
                \cup {<<s, t>> : s \in NtaSeedIds, t \in NtaSeedIds}
NtaResets == {F(1, 2), F(1, 4)}
\* tolerances of a few units in the last place of a probability
NtaTolerances == {F(1, 4), F(1, 8)}
NtaMethods ==
    {[kind |-> "None", size |-> 0]}
    \cup {[kind |-> m, size |-> k] : m \in {"Prioritize", "Expand"}, k \in 0..MaxNtaSize}

NtaInit ==
    /\ nta_pc = "start"
    /\ nta_config \in [edge_list : NtaEdgeLists, seeds : NtaSeedLists,
                       reset_probability : NtaResets, tolerance : NtaTolerances,
                       method : NtaMethods]
    /\ reverse_map = <<>> /\ pt = <<>> /\ pt1 = <<>> /\ nta_result = <<>>
    /\ BhOff /\ HyOff /\ OraOff /\ GsOff /\ ClOff /\ CgOff /\ RestOff

\* the walk of the call in progress
NtaTransition == Transition(Graph(nta_config.edge_list, reverse_map))
NtaRestart ==
    RestartVector(Len(reverse_map), SeedIndices(nta_config.seeds, reverse_map))

\* get_nta up to the loop of random_walk_probability: the node indexing,
\* the seed lookup, p0 and the first iterate
NtaProcess ==
    /\ nta_pc = "start"
    /\ \E rmap \in NodeOrders(UniqueNodes(nta_config.edge_list)) :
         IF SeedLookupFails(nta_config.seeds, rmap)
         THEN /\ nta_pc' = "panic"
              /\ UNCHANGED <<reverse_map, pt, pt1>>
         ELSE LET p0 == RestartVector(Len(rmap), SeedIndices(nta_config.seeds, rmap))
                  trans == Transition(Graph(nta_config.edge_list, rmap))
              IN /\ reverse_map' = rmap
                 /\ pt' = p0
                 /\ pt1' = WalkStep(trans, p0, p0, nta_config.reset_probability)
                 /\ nta_pc' = "walk"
    /\ UNCHANGED <<nta_config, nta_result, bhVars, hyVars, oraVars, gsVars, clVars, cgVars, restVars>>

\* one pass of the while loop
NtaIterate ==
    /\ nta_pc = "walk"
    /\ FGt(WalkDistance(pt1, pt), nta_config.tolerance)
    /\ pt' = pt1
    /\ pt1' = WalkStep(NtaTransition, pt1, NtaRestart, nta_config.reset_probability)
    /\ UNCHANGED <<nta_pc, nta_config, reverse_map, nta_result,
                   bhVars, hyVars, oraVars, gsVars, clVars, cgVars, restVars>>

\* the exit of the loop, the sort of process_nta and the arm of get_nta
NtaReturn ==
    /\ nta_pc = "walk"
    /\ ~FGt(WalkDistance(pt1, pt), nta_config.tolerance)
    /\ nta_result' = NtaResultOf(nta_config, reverse_map, pt1)
    /\ nta_pc' = "done"
    /\ UNCHANGED <<nta_config, reverse_map, pt, pt1,
                   bhVars, hyVars, oraVars, gsVars, clVars, cgVars, restVars>>

NtaNext == NtaProcess \/ NtaIterate \/ NtaReturn

SpecNta == NtaInit /\ [][NtaNext]_vars

\* the calls whose seeds are all nodes of the graph, with the default method
NtaWalkInit ==
    /\ NtaInit
    /\ nta_config.method.kind = "None"
    /\ Members(nta_config.seeds) \subseteq UniqueNodes(nta_config.edge_list)
\* NtaProcess and the two steps at the loop as nta_pc and pt show them:
\* each is enabled exactly where the step of NtaNext is, and the steps of
\* NtaNext are its steps
NtaProcessStep == nta_pc = "start" /\ nta_pc' \in {"walk", "panic"}
NtaLoopStep ==
    /\ nta_pc = "walk"
    /\ \/ nta_pc' = "walk" /\ pt' = pt1
       \/ nta_pc' = "done" /\ pt' = pt
\* the thread of the call is always scheduled again
SpecNtaFair ==
    /\ NtaWalkInit /\ [][NtaNext]_vars
    /\ WF_nta_pc(NtaProcessStep) /\ WF_<<nta_pc, pt>>(NtaLoopStep)

----------------------------------------------------------------------------
(* Claims about get_nta *)

NtaDone == nta_pc = "done"
NtaMethodKind == MethodOf(nta_config).kind
NtaMethodSize == MethodOf(nta_config).size
\* the final probability of a node
NtaProb(node) == pt1[NodeGet(reverse_map, node)]
NtaSeeds == Members(nta_config.seeds)
NtaNonSeeds == UniqueNodes(nta_config.edge_list) \ NtaSeeds
WithinTolerance == FLeq(WalkDistance(pt1, pt), nta_config.tolerance)

(* C14: for every graph of a non-empty edge list, seeds that are nodes of  *)
(* it, r in (0,1) and eps > 0, the random walk with restart eventually     *)
(* terminates, and when it has terminated the returned vector and the      *)
(* previous iterate satisfy sum |p_new - p_old| <= eps.                    *)
C14_WalkTerminates ==
    /\ (nta_pc = "walk") ~> NtaDone
    /\ [](NtaDone => WithinTolerance)
\* the half of C14 about the returned vector
ReturnedWithinTolerance == NtaDone => WithinTolerance
\* the walk does terminate at the coarser of the two tolerances
TerminatesAtCoarseTolerance ==
    (nta_pc = "walk" /\ nta_config.tolerance = F(1, 4)) ~> NtaDone

\* the listed nodes are distinct nodes of `among`, none outside the list
\* has a higher probability than a listed one, and the list is in
\* non-increasing order of probability
TopByProbability(nb, among) ==
    /\ Members(nb) \subseteq among
    /\ Cardinality(Members(nb)) = Len(nb)
    /\ \A x \in 1..Len(nb) : \A n \in among \ Members(nb) :
          FGeq(NtaProb(nb[x]), NtaProb(n))
    /\ \A x, y \in 1..Len(nb) : x < y => FGeq(NtaProb(nb[x]), NtaProb(nb[y]))
ScoresParallel(r) ==
    /\ Len(r.scores) = Len(r.neighborhood)
    /\ \A x \in 1..Len(r.neighborhood) : r.scores[x] = NtaProb(r.neighborhood[x])

(* C15: under Expand(k) the neighborhood contains no seed, has length      *)
(* min(k, number of non-seed nodes), holds the k highest-probability       *)
(* non-seed nodes in non-increasing order of final probability, scores     *)
(* has the same length with scores[i] the probability of neighborhood[i],  *)
(* and candidates is empty.                                                *)
C15_Expand ==
    NtaDone /\ NtaMethodKind = "Expand" =>
        /\ Members(nta_result.neighborhood) \cap NtaSeeds = {}
        /\ Len(nta_result.neighborhood) = Min2(NtaMethodSize, Cardinality(NtaNonSeeds))
        /\ TopByProbability(nta_result.neighborhood, NtaNonSeeds)
        /\ ScoresParallel(nta_result)
        /\ nta_result.candidates = <<>>
\* Expand(1) had to choose between two non-seed nodes of different probability
C15_Witness ==
    /\ NtaDone /\ nta_config.method.kind = "Expand" /\ NtaMethodSize = 1
    /\ Len(nta_result.neighborhood) = 1
    /\ \E n \in NtaNonSeeds : FLt(NtaProb(n), nta_result.scores[1])
\* the default method keeps every non-seed node
DefaultMethodReached ==
    NtaDone /\ nta_config.method.kind = "None" /\ Len(nta_result.neighborhood) = 2

(* C16: under Prioritize(k) the neighborhood is made only of seeds, the    *)
(* at most k highest-probability seeds in non-increasing order of final    *)
(* probability, scores is parallel to it, and candidates is the prefix of  *)
(* neighborhood with its first min(|neighborhood|, k-1) entries.           *)
C16_Prioritize ==
    NtaDone /\ NtaMethodKind = "Prioritize" =>
        /\ Len(nta_result.neighborhood) = Min2(NtaMethodSize, Cardinality(NtaSeeds))
        /\ TopByProbability(nta_result.neighborhood, NtaSeeds)
        /\ ScoresParallel(nta_result)
        /\ nta_result.candidates =
              [x \in 1..Max2(0, Min2(Len(nta_result.neighborhood), NtaMethodSize - 1)) |->
                  nta_result.neighborhood[x]]
\* Prioritize(2) over two seeds of different probability: one candidate
C16_Witness ==
    /\ NtaDone /\ NtaMethodKind = "Prioritize" /\ NtaMethodSize = 2
    /\ Len(nta_result.neighborhood) = 2
    /\ FLt(nta_result.scores[2], nta_result.scores[1])
    /\ Len(nta_result.candidates) = 1
\* Prioritize(1) drops the seed of lower probability and has no candidate
PrioritizeOneReached ==
    /\ NtaDone /\ NtaMethodKind = "Prioritize" /\ NtaMethodSize = 1
    /\ Cardinality(NtaSeeds) = 2 /\ nta_result.candidates = <<>>
    /\ \E n \in NtaSeeds : FLt(NtaProb(n), nta_result.scores[1])

UnknownSeed == ~(NtaSeeds \subseteq UniqueNodes(nta_config.edge_list))

(* C17: get_nta called with a seed id that occurs in no edge fails hard    *)
(* and produces no NTAResult, not even a partial one; it never drops the   *)
(* unknown seed and continues.                                             *)
C17_UnknownSeedFails ==
    nta_pc # "off" /\ UnknownSeed =>
        /\ nta_pc \in {"start", "panic"}
        /\ nta_result = <<>> /\ pt = <<>> /\ pt1 = <<>>
\* the call has failed on a seed list with a known and an unknown id
C17_Witness ==
    /\ nta_pc = "panic" /\ UnknownSeed
    /\ NtaSeeds \cap UniqueNodes(nta_config.edge_list) # {}
\* the first step of a call with an unknown seed is the failure
UnknownSeedFailsAtOnce ==
    [][nta_pc = "start" /\ UnknownSeed => nta_pc' = "panic"]_vars

----------------------------------------------------------------------------
(* methods/multiomics.rs: combine_lists and combine_gmts.  The rank of a   *)
(* RankListItem is an f64 in the representation <<n, d>>.                  *)

\* list.sort_by(|a, b| a.rank.partial_cmp(&b.rank)): stable, ascending
RECURSIVE InsertAscending(_, _)
InsertAscending(s, item) ==
    IF s = <<>> THEN <<item>>
    ELSE IF FLeq(Head(s).rank, item.rank) THEN <<Head(s)>> \o InsertAscending(Tail(s), item)
    ELSE <<item>> \o s
RECURSIVE SortAscending(_)
SortAscending(list) ==
    IF list = <<>> THEN <<>>
    ELSE InsertAscending(SortAscending(SubSeq(list, 1, Len(list) - 1)), list[Len(list)])
\* list.sort_by(|a, b| b.rank.partial_cmp(&a.rank)): stable, descending
RECURSIVE InsertDescending(_, _)
InsertDescending(s, item) ==
    IF s = <<>> THEN <<item>>
    ELSE IF FGeq(Head(s).rank, item.rank) THEN <<Head(s)>> \o InsertDescending(Tail(s), item)
    ELSE <<item>> \o s
RECURSIVE SortDescending(_)
SortDescending(list) ==
    IF list = <<>> THEN <<>>
    ELSE InsertDescending(SortDescending(SubSeq(list, 1, Len(list) - 1)), list[Len(list)])

\* list.last().unwrap() panics on an empty list
NormalizePanics(list, method) ==
    method \in {"MedianValue", "MeanValue"} /\ list = <<>>

NormalizeMedianRank(list) ==
    LET by_rank == SortAscending(list)
        median == FDiv(I(Len(list)), I(2))
    IN [i \in 1..Len(list) |->
           [analyte |-> by_rank[i].analyte,
            rank |-> FDiv(FSub(I(i - 1), median), median)]]
NormalizeMedianValue(list) ==
    LET by_rank == SortDescending(list)
        lowest == by_rank[Len(list)].rank
        median == FSub(by_rank[(Len(list) \div 2) + 1].rank, lowest)
        shift == FDiv(lowest, median)
    IN [i \in 1..Len(list) |->
           [analyte |-> by_rank[i].analyte,
            rank |-> FAdd(FDiv(FSub(by_rank[i].rank, lowest), median), shift)]]
NormalizeMeanValue(list) ==
    LET by_rank == SortDescending(list)
        lowest == by_rank[Len(list)].rank
        mean == FSub(FDiv(FSum([i \in 1..Len(list) |-> FSub(by_rank[i].rank, lowest)]),
                          I(Len(list))),
                     FDiv(lowest, I(Len(list))))
        shift == FDiv(lowest, mean)
    IN [i \in 1..Len(list) |->
           [analyte |-> by_rank[i].analyte,
            rank |-> FAdd(FDiv(FSub(by_rank[i].rank, lowest), mean), shift)]]
normalize(list, method) ==
    CASE method = "None" -> list
      [] method = "MedianRank" -> NormalizeMedianRank(list)
      [] method = "MedianValue" -> NormalizeMedianValue(list)
      [] method = "MeanValue" -> NormalizeMeanValue(list)

\* the items of all lists, in the order the loops visit them
RECURSIVE Flatten(_)
Flatten(lists) ==
    IF lists = <<>> THEN <<>> ELSE Head(lists) \o Flatten(Tail(lists))
NormalizedItems(lists, method) ==
    Flatten([l \in 1..Len(lists) |-> normalize(lists[l], method)])

\* the orders in which an AHashMap can enumerate n entries
EntryOrders(n) == {o \in [1..n -> 1..n] : \A x, y \in 1..n : x # y => o[x] # o[y]}

\* one pass of the loop of max_combine if every item were inserted anew
MaxInsertAlways(batches, item) == Append(batches, item)
\* one pass of the loop of max_combine; batches holds its entries in the
\* order of their insertion
MaxInsert(batches, item) ==
    IF \E x \in 1..Len(batches) : batches[x].analyte = item.analyte
    THEN [x \in 1..Len(batches) |->
             IF batches[x].analyte = item.analyte /\ FGt(FAbs(item.rank), batches[x].rank)
             THEN [batches[x] EXCEPT !.rank = item.rank]
             ELSE batches[x]]
    ELSE Append(batches, item)
RECURSIVE MaxBatches(_)
MaxBatches(items) ==
    IF items = <<>> THEN <<>>
    ELSE MaxInsert(MaxBatches(SubSeq(items, 1, Len(items) - 1)), items[Len(items)])

\* one pass of the loop of mean_combine: the entry of an analyte holds the
\* vector of its ranks
MeanInsert(batches, item) ==
    IF \E x \in 1..Len(batches) : batches[x].analyte = item.analyte
    THEN [x \in 1..Len(batches) |->
             IF batches[x].analyte = item.analyte
             THEN [batches[x] EXCEPT !.ranks = Append(@, item.rank)]
             ELSE batches[x]]
    ELSE Append(batches, [analyte |-> item.analyte, ranks |-> <<item.rank>>])
RECURSIVE MeanBatches(_)
MeanBatches(items) ==
    IF items = <<>> THEN <<>>
    ELSE MeanInsert(MeanBatches(SubSeq(items, 1, Len(items) - 1)), items[Len(items)])

\* max_combine, with the keys enumerated in the order o
max_combine(lists, normalization_method, o) ==
    LET batches == MaxBatches(NormalizedItems(lists, normalization_method))
    IN [x \in 1..Len(batches) |-> batches[o[x]]]
\* mean_combine, with the keys enumerated in the order o
mean_combine(lists, normalization_method, o) ==
    LET batches == MeanBatches(NormalizedItems(lists, normalization_method))
    IN [x \in 1..Len(batches) |->
           [analyte |-> batches[o[x]].analyte,
            rank |-> FDiv(FSum(batches[o[x]].ranks), I(Len(batches[o[x]].ranks)))]]
\* the number of keys of batches
BatchCount(lists, method) ==
    IF method.kind = "Max" THEN Len(MaxBatches(NormalizedItems(lists, method.norm)))
    ELSE Len(MeanBatches(NormalizedItems(lists, method.norm)))

\* one pass of the loop of combine_gmts; an entry holds what combined_parts
\* and combined_urls hold for its id
GmtInsert(combined, item) ==
    IF \E x \in 1..Len(combined) : combined[x].id = item.id
    THEN [x \in 1..Len(combined) |->
             IF combined[x].id = item.id
             THEN [combined[x] EXCEPT !.parts = @ \o item.parts]
             ELSE combined[x]]
    ELSE Append(combined, item)
RECURSIVE GmtFold(_)
GmtFold(items) ==
    IF items = <<>> THEN <<>>
    ELSE GmtInsert(GmtFold(SubSeq(items, 1, Len(items) - 1)), items[Len(items)])
\* combine_gmts, with combined_parts enumerated in the order o
combine_gmts(gmts, o) ==
    LET combined == GmtFold(Flatten(gmts))
    IN [x \in 1..Len(combined) |-> combined[o[x]]]

----------------------------------------------------------------------------
(* Bounds of the combine_lists inputs: at most two lists of at most two    *)
(* items                                                                   *)

ClAnalytes == {"a", "b"}
ClRanks == {I(-2), I(-1), I(1)}
ClItems == [analyte : ClAnalytes, rank : ClRanks]
ClItemLists == {<<>>} \cup {<<i>> : i \in ClItems} \cup {<<i, j>> : i \in ClItems, j \in ClItems}
ClCollections ==
    {<<>>} \cup {<<l>> : l \in ClItemLists} \cup {<<l, k>> : l \in ClItemLists, k \in ClItemLists}
NormalizationMethods == {"MedianRank", "MedianValue", "MeanValue", "None"}
ClMethods ==
    {[kind |-> k, norm |-> n] : k \in {"Max", "Mean"}, n \in NormalizationMethods}
    \cup {[kind |-> "Meta", norm |-> "None"]}

ClInit ==
    /\ cl_pc = "call"
    /\ cl_lists \in ClCollections
    /\ cl_method \in ClMethods
    /\ cl_out = <<>>
    /\ BhOff /\ HyOff /\ OraOff /\ GsOff /\ NtaOff /\ CgOff /\ RestOff

\* combine_lists
ClCombine ==
    /\ cl_pc = "call"
    /\ IF \/ cl_method.kind = "Meta"
          \/ \E l \in 1..Len(cl_lists) : NormalizePanics(cl_lists[l], cl_method.norm)
       THEN cl_pc' = "panic" /\ UNCHANGED cl_out
       ELSE /\ \E o \in EntryOrders(BatchCount(cl_lists, cl_method)) :
                 cl_out' = IF cl_method.kind = "Max"
                           THEN max_combine(cl_lists, cl_method.norm, o)
                           ELSE mean_combine(cl_lists, cl_method.norm, o)
            /\ cl_pc' = "done"
    /\ UNCHANGED <<cl_lists, cl_method, bhVars, hyVars, oraVars, gsVars, ntaVars, cgVars, restVars>>

SpecCombineLists == ClInit /\ [][ClCombine]_vars

----------------------------------------------------------------------------
(* Bounds of the combine_gmts inputs: at most two collections of at most   *)
(* two sets                                                                *)

CgIds == {"s1", "s2"}
CgUrls == {"u1", "u2"}
CgParts == {<<1>>, <<2, 1>>}
CgItems == [id : CgIds, url : CgUrls, parts : CgParts]
CgGmts == {<<>>} \cup {<<i>> : i \in CgItems} \cup {<<i, j>> : i \in CgItems, j \in CgItems}
CgCollections == {<<>>} \cup {<<g>> : g \in CgGmts} \cup {<<g, h>> : g \in CgGmts, h \in CgGmts}

CgInit ==
    /\ cg_pc = "call"
    /\ cg_gmts \in CgCollections
    /\ cg_out = <<>>
    /\ BhOff /\ HyOff /\ OraOff /\ GsOff /\ NtaOff /\ ClOff /\ RestOff

\* combine_gmts
CgCombine ==
    /\ cg_pc = "call"
    /\ \E o \in EntryOrders(Len(GmtFold(Flatten(cg_gmts)))) :
         cg_out' = combine_gmts(cg_gmts, o)
    /\ cg_pc' = "done"
    /\ UNCHANGED <<cg_gmts, bhVars, hyVars, oraVars, gsVars, ntaVars, clVars, restVars>>

SpecCombineGmts == CgInit /\ [][CgCombine]_vars

----------------------------------------------------------------------------
(* Claims about combine_lists and combine_gmts *)

ClDone == cl_pc = "done"
ClAllItems == NormalizedItems(cl_lists, cl_method.norm)
\* the normalized occurrences of an analyte across the lists
ClOccurrences(analyte) ==
    {ClAllItems[x].rank : x \in {y \in 1..Len(ClAllItems) : ClAllItems[y].analyte = analyte}}
ClNames(list) == {list[x].analyte : x \in 1..Len(list)}
LargestAbs(rank, occurrences) ==
    /\ rank \in occurrences
    /\ \A v \in occurrences : ~FGt(FAbs(v), FAbs(rank))

(* C18: the score combine_lists with Max gives an analyte is the one of    *)
(* its normalized occurrences whose absolute value is largest; an          *)
(* occurrence of smaller absolute value never replaces one of larger       *)
(* absolute value, also when the kept score is negative.                   *)
C18_MaxKeepsLargestAbs ==
    ClDone /\ cl_method.kind = "Max" =>
        \A x \in 1..Len(cl_out) :
            LargestAbs(cl_out[x].rank, ClOccurrences(cl_out[x].analyte))
\* what holds: the claim for an analyte none of whose occurrences is
\* negative or NaN
MaxOfNonNegative ==
    ClDone /\ cl_method.kind = "Max" =>
        \A x \in 1..Len(cl_out) :
            (\A v \in ClOccurrences(cl_out[x].analyte) : FGeq(v, I(0)))
                => LargestAbs(cl_out[x].rank, ClOccurrences(cl_out[x].analyte))

ClUnion == UNION {ClNames(cl_lists[l]) : l \in 1..Len(cl_lists)}
ClOneDistinctList ==
    /\ Len(cl_lists) = 1 /\ cl_method.norm = "None"
    /\ Cardinality(ClNames(cl_lists[1])) = Len(cl_lists[1])

(* C19: combine_lists with None normalization on a single list of distinct *)
(* names returns the same (analyte, score) pairs, under Max and under      *)
(* Mean; for any input lists the output holds each name of the union of    *)
(* the inputs exactly once and no other name.                              *)
C19_MergeOfOneList ==
    ClDone =>
        /\ ClOneDistinctList =>
              Members(cl_out) = Members(cl_lists[1]) /\ Len(cl_out) = Len(cl_lists[1])
        /\ ClNames(cl_out) = ClUnion
        /\ Len(cl_out) = Cardinality(ClUnion)
\* Mean has merged one list of two names with different scores
C19_Witness ==
    /\ ClDone /\ ClOneDistinctList /\ cl_method.kind = "Mean"
    /\ Len(cl_out) = 2 /\ cl_out[1].rank # cl_out[2].rank
\* Max has kept the negative score of larger absolute value
NegativeKept ==
    /\ ClDone /\ cl_method = [kind |-> "Max", norm |-> "None"]
    /\ cl_lists = <<<<[analyte |-> "a", rank |-> I(1)]>>, <<[analyte |-> "a", rank |-> I(-2)]>>>>
    /\ cl_out = <<[analyte |-> "a", rank |-> I(-2)]>>
\* Max has merged two normalized lists that share a name
SharedNameMerged ==
    /\ ClDone /\ cl_method.kind = "Max" /\ cl_method.norm = "MedianValue"
    /\ Len(cl_lists) = 2 /\ ClNames(cl_lists[1]) \cap ClNames(cl_lists[2]) # {}
    /\ Len(cl_out) = 2

CgDone == cg_pc = "done"
CgInput == Flatten(cg_gmts)
CgInputIds == {CgInput[x].id : x \in 1..Len(CgInput)}
\* the first occurrence of an id in input order
CgFirst(id) ==
    CgInput[CHOOSE x \in 1..Len(CgInput) :
               CgInput[x].id = id /\ \A y \in 1..(x - 1) : CgInput[y].id # id]
\* the member lists of the occurrences of an id, concatenated in input order
RECURSIVE CgConcat(_, _)
CgConcat(items, id) ==
    IF items = <<>> THEN <<>>
    ELSE (IF Head(items).id = id THEN Head(items).parts ELSE <<>>) \o CgConcat(Tail(items), id)
OneItemPerId ==
    /\ Len(cg_out) = Cardinality(CgInputIds)
    /\ {cg_out[x].id : x \in 1..Len(cg_out)} = CgInputIds
    /\ \A x \in 1..Len(cg_out) :
          /\ cg_out[x].url = CgFirst(cg_out[x].id).url
          /\ cg_out[x].parts = CgConcat(CgInput, cg_out[x].id)
CgOneDistinctCollection ==
    /\ Len(cg_gmts) = 1
    /\ Cardinality({cg_gmts[1][x].id : x \in 1..Len(cg_gmts[1])}) = Len(cg_gmts[1])
\* the same sets in the same sequence, up to the order of the members
SameSequence(out, g) ==
    /\ Len(out) = Len(g)
    /\ \A x \in 1..Len(g) :
          /\ out[x].id = g[x].id /\ out[x].url = g[x].url
          /\ Members(out[x].parts) = Members(g[x].parts)
          /\ Len(out[x].parts) = Len(g[x].parts)

(* C20: combine_gmts returns exactly one Item per distinct set id, with    *)
(* the url of the first occurrence of the id in input order and the        *)
(* members of all its occurrences concatenated in input order; on a single *)
(* collection G with distinct ids it returns G itself, the same sets in    *)
(* the same sequence, up to member order inside each set.                  *)
C20_CombineGmts ==
    CgDone =>
        /\ OneItemPerId
        /\ CgOneDistinctCollection => SameSequence(cg_out, cg_gmts[1])
\* what holds: the items are the right ones
CombinedItemsAreRight == CgDone => OneItemPerId
\* what holds: of a single collection with distinct ids, the same sets
SingleCollectionSameSets ==
    CgDone /\ CgOneDistinctCollection => Members(cg_out) = Members(cg_gmts[1])

----------------------------------------------------------------------------
(* Claims about analyte_set_p and enrichment_score (gsea.rs) *)

\* the sets a worker has scored so far that pass the overlap filter
ScoredRows ==
    {x \in 1..Len(partial_results) : partial_results[x] # <<>> /\ Scored(x)}
\* N_r of set x, as analyte_set_p sums it
NrOf(x) == GseaNr(analytes, ranks, Members(gsea_gmt[x].parts), GseaExponent)
\* the divisor of the miss steps of set x
MissNormaliserOf(x) ==
    SizeDif(Len(analytes), Cardinality(Members(gsea_gmt[x].parts)))
LastOf(s) == s[Len(s)]

(***************************************************************************)
(* C24: the miss normaliser of a set is n - k, with k the overlap of the   *)
(* set with the rank list and not the number of members of the set, so     *)
(* that for a scored set (N_r > 0) the running sum after the last position *)
(* is 0, also when the set has members that are absent from the rank list. *)
(***************************************************************************)
C24_MissNormaliser ==
    \A x \in ScoredRows :
        FGt(NrOf(x), I(0)) =>
            /\ MissNormaliserOf(x) = Len(analytes) - OverlapOf(x)
            /\ LastOf(partial_results[x].running_sum) = I(0)

\* what holds: a scored set all of whose members are in the rank list ends
\* at 0
AllMembersRanked(x) ==
    Members(gsea_gmt[x].parts) \subseteq {analytes[j] : j \in 1..Len(analytes)}
EndsAtZeroWhenAllRanked ==
    \A x \in ScoredRows :
        FGt(NrOf(x), I(0)) /\ AllMembersRanked(x) =>
            LastOf(partial_results[x].running_sum) = I(0)
\* a scored set with an absent member ends below 0
AbsentMemberEndsBelowZero ==
    \E x \in ScoredRows :
        /\ FGt(NrOf(x), I(0)) /\ ~AllMembersRanked(x)
        /\ FLt(LastOf(partial_results[x].running_sum), I(0))

\* the number of extrema of set x that are 0
ZeroExtrema(x) ==
    Cardinality({i \in 1..Len(permutations) : ExtremaOf(x)[i] = I(0)})
\* NES is not on the other side of 0 than ES
SignKept(row) ==
    /\ FGt(row.es, I(0)) => ~QLtZero(row.nes)
    /\ FLt(row.es, I(0)) => ~QGtZero(row.nes)

(***************************************************************************)
(* C25: the permutation extrema of a scored set are split into up (x >= 0) *)
(* and down (x < 0), every extremum, also one equal to 0, on exactly one   *)
(* side, so that the set gives the pooled null distribution exactly as     *)
(* many normalized scores as there are permutations; and NES is on the     *)
(* side of ES.                                                             *)
(***************************************************************************)
C25_ExtremaPartitioned ==
    \A x \in ScoredRows :
        /\ Len(partial_results[x].nes_iter) = Len(permutations)
        /\ SignKept(partial_results[x])

\* what holds: every extremum that is not NaN is on a side, an extremum
\* equal to 0 on both, and NES is on the side of ES
NaNExtrema(x) ==
    Cardinality({i \in 1..Len(permutations) : IsNaN(ExtremaOf(x)[i])})
ZeroExtremaOnBothSides ==
    \A x \in ScoredRows :
        /\ Len(partial_results[x].nes_iter) =
               Len(permutations) + ZeroExtrema(x) - NaNExtrema(x)
        /\ SignKept(partial_results[x])
\* a scored set with a permutation extremum equal to 0
ZeroExtremumReached ==
    \E x \in ScoredRows :
        /\ ZeroExtrema(x) > 0
        /\ Len(partial_results[x].nes_iter) > Len(permutations)
\* the same, of a set whose own N_r is not 0
ZeroExtremumOfWeightedSet ==
    \E x \in ScoredRows :
        /\ ZeroExtrema(x) > 0 /\ FGt(NrOf(x), I(0))
        /\ Len(partial_results[x].nes_iter) > Len(permutations)

\* the quotient of the FDR of one item with the side of the null and the
\* side of the observed distribution chosen alike: the values x >= 0 if
\* nonneg, the values x < 0 otherwise
SameSideFdr(v, null_distribution, observed_distribution, nonneg) ==
    LET AtLeast(x) == QAbsGeq(x, v)
        OnSide(x) == IF nonneg THEN QGeqZero(x) ELSE QLtZero(x)
        top == SelectSeq(null_distribution, OnSide)
        bottom == SelectSeq(observed_distribution, OnSide)
        top_len == IF top = <<>> THEN Eps ELSE I(Len(top))
        bottom_len == IF bottom = <<>> THEN Eps ELSE I(Len(bottom))
        top_count == I(Len(SelectSeq(top, AtLeast)))
        bottom_count == I(Len(SelectSeq(bottom, AtLeast)))
    IN FDiv(FMul(top_count, bottom_len), FMul(bottom_count, top_len))
\* the sides that have the sign of v; 0 is on the side x >= 0
SidesOf(v) == IF QLtZero(v) THEN {FALSE} ELSE {TRUE}
NullOf(rows) == FlatMap(rows, Len(rows))
ObservedOf(rows) == [x \in 1..Len(rows) |-> rows[x].nes]

(***************************************************************************)
(* C26: for every observed NES v, also v = 0, the FDR step takes the side  *)
(* of the null distribution (top) and the side of the observed             *)
(* distribution (bottom) by the same sign, that of v, and its fdr is       *)
(* (top_count/|top|) / (bottom_count/|bottom|), the counts being those of  *)
(* the entries of the two sides with |x| >= |v|.                           *)
(***************************************************************************)
C26_SidesBySignOfNes ==
    GsDone =>
        \A x \in 1..Len(final_gsea) :
            \E nonneg \in SidesOf(final_gsea[x].nes) :
                final_gsea[x].fdr =
                    ClampFdr(SameSideFdr(final_gsea[x].nes, NullOf(partial_results),
                                         ObservedOf(partial_results), nonneg))

\* what holds: the two sides have the sign of v if v is not 0
SidesBySignOfNonZeroNes ==
    GsDone =>
        \A x \in 1..Len(final_gsea) :
            QGtZero(final_gsea[x].nes) \/ QLtZero(final_gsea[x].nes) =>
                \E nonneg \in SidesOf(final_gsea[x].nes) :
                    final_gsea[x].fdr =
                        ClampFdr(SameSideFdr(final_gsea[x].nes, NullOf(partial_results),
                                             ObservedOf(partial_results), nonneg))
\* a row with NES 0 whose fdr is not that of the side x >= 0
ZeroNesNotOfNonNegativeSide ==
    /\ GsDone
    /\ \E x \in 1..Len(final_gsea) :
         /\ final_gsea[x].nes = QZero
         /\ final_gsea[x].fdr #
                ClampFdr(SameSideFdr(final_gsea[x].nes, NullOf(partial_results),
                                     ObservedOf(partial_results), TRUE))
\* after the clamp, the fdr of a row with NES 0 is the one of the side
\* x < 0 of both distributions
ZeroNesAsOfNegativeSide ==
    GsDone =>
        \A x \in 1..Len(final_gsea) :
            final_gsea[x].nes = QZero =>
                final_gsea[x].fdr =
                    ClampFdr(SameSideFdr(final_gsea[x].nes, NullOf(partial_results),
                                         ObservedOf(partial_results), FALSE))

\* position i holds the largest absolute value of s, and is the first that
\* does; an element that is NaN is no value and is passed over
IsExtremumAt(s, i) ==
    /\ ~IsNaN(s[i])
    /\ \A j \in 1..Len(s) : ~FGt(FAbs(s[j]), FAbs(s[i]))
    /\ \A j \in 1..(i - 1) : ~FGeq(FAbs(s[j]), FAbs(s[i]))
\* the members of set x among the first i analytes of the sorted rank list
HitsUpTo(x, i) ==
    Cardinality({j \in 1..i : analytes[j] \in Members(gsea_gmt[x].parts)})
EsAtExtremum(x, i) ==
    LET row == partial_results[x]
    IN /\ IsExtremumAt(row.running_sum, i)
       /\ row.es = row.running_sum[i]
       /\ FGt(row.es, I(0)) => row.leading_edge = HitsUpTo(x, i)
       /\ FLt(row.es, I(0)) => row.leading_edge = Len(analytes) - HitsUpTo(x, i)

(***************************************************************************)
(* C27: for a scored set, es is the element of running_sum with the        *)
(* largest absolute value, the first one on ties, and leading_edge is the  *)
(* number of hits up to and including that position if es > 0 and n minus  *)
(* that number if es < 0, n being the length of the rank list.             *)
(***************************************************************************)
C27_EsIsExtremum ==
    \A x \in ScoredRows :
        \E i \in 1..Len(partial_results[x].running_sum) : EsAtExtremum(x, i)

\* what holds: the same of a scored set whose running sum has an element
\* that is not NaN
SomeValueIn(s) == \E j \in 1..Len(s) : ~IsNaN(s[j])
EsIsExtremumOfValues ==
    \A x \in ScoredRows :
        SomeValueIn(partial_results[x].running_sum) =>
            \E i \in 1..Len(partial_results[x].running_sum) : EsAtExtremum(x, i)
\* a scored set with a tie of the largest absolute value, a negative es and
\* finite sums
TieOfExtremaReached ==
    \E x \in ScoredRows :
        LET s == partial_results[x].running_sum
        IN /\ \A j \in 1..Len(s) : IsFinite(s[j])
           /\ FLt(partial_results[x].es, I(0))
           /\ \E i, j \in 1..Len(s) :
                i < j /\ EsAtExtremum(x, i) /\ FAbs(s[j]) = FAbs(s[i])
\* a scored set whose es is 0 and whose running sum is NaN throughout
EsZeroOfNaNSumsReached ==
    \E x \in ScoredRows :
        /\ partial_results[x].es = I(0)
        /\ \A j \in 1..Len(analytes) : IsNaN(partial_results[x].running_sum[j])

\* the record of a set that is filtered out
IsTerminal(row) ==
    /\ row.p = I(1) /\ row.es = I(0) /\ row.nes = QZero
    /\ row.running_sum = <<>>
\* the N_r that enrichment_score derives again for permutation i of set x
PermNrOf(x, i) ==
    PermNr([j \in 1..Len(analytes) |-> analytes[j] \in Members(gsea_gmt[x].parts)],
           [j \in 1..Len(ranks) |-> AbsPow(ranks[j], GseaExponent)],
           permutations[i])

(***************************************************************************)
(* C28: a set whose overlap is within [min_overlap, max_overlap] but whose *)
(* overlapping positions all have weight 0, so that N_r = 0, is treated as *)
(* filtered out (p = 1, es = 0, nes = 0, empty running_sum), with no       *)
(* division by N_r; and a permutation whose re-derived N_r is 0 yields no  *)
(* NaN and no infinite score.                                              *)
(***************************************************************************)
C28_ZeroWeightFilteredOut ==
    \A x \in ScoredRows :
        /\ NrOf(x) = I(0) => IsTerminal(partial_results[x])
        /\ \A i \in 1..Len(permutations) :
             PermNrOf(x, i) = I(0) => IsFinite(ExtremaOf(x)[i])

\* what holds: the extremum of a permutation whose re-derived N_r is 0 is
\* 0, every step score of it being NaN
ZeroWeightPermutationScoresZero ==
    \A x \in ScoredRows :
        \A i \in 1..Len(permutations) :
            PermNrOf(x, i) = I(0) => ExtremaOf(x)[i] = I(0)
\* a set with N_r = 0 is scored: its running sum is NaN at every position
\* of the rank list
ZeroWeightSetScored ==
    \E x \in ScoredRows :
        /\ NrOf(x) = I(0)
        /\ Len(partial_results[x].running_sum) = Len(analytes)
        /\ \A j \in 1..Len(analytes) : IsNaN(partial_results[x].running_sum[j])

----------------------------------------------------------------------------
(* Claim about normalize (multiomics.rs) *)

\* the least score of a list
LowestOf(list) ==
    CHOOSE v \in {list[x].rank : x \in 1..Len(list)} :
        \A x \in 1..Len(list) : FLeq(v, list[x].rank)
\* MeanValue as the claim has it: (score - min)/mean + min/mean, the mean
\* being that of the shifted scores
ClaimedMeanValue(list) ==
    LET lowest == LowestOf(list)
        mean == FDiv(FSum([x \in 1..Len(list) |-> FSub(list[x].rank, lowest)]),
                     I(Len(list)))
    IN {[analyte |-> list[x].analyte,
         rank |-> FAdd(FDiv(FSub(list[x].rank, lowest), mean), FDiv(lowest, mean))] :
           x \in 1..Len(list)}
\* the 0-based position of item x in ascending order of score, items of
\* equal score in input order
AscendingPosition(list, x) ==
    Cardinality({y \in 1..Len(list) :
                    \/ FLt(list[y].rank, list[x].rank)
                    \/ list[y].rank = list[x].rank /\ y < x})
\* MedianRank as the claim has it: (i - m/2)/(m/2)
ClaimedMedianRank(list) ==
    {[analyte |-> list[x].analyte,
      rank |-> F(2 * AscendingPosition(list, x) - Len(list), Len(list))] :
        x \in 1..Len(list)}
\* one list of distinct names: the output of combine_lists is the
\* normalized list, under Max and under Mean
ClOneListOf(norm) ==
    /\ ClDone /\ Len(cl_lists) = 1 /\ cl_method.norm = norm
    /\ Cardinality(ClNames(cl_lists[1])) = Len(cl_lists[1])

(***************************************************************************)
(* C29: MeanValue replaces every score by (score - min)/mean + min/mean,   *)
(* with min the least score of the list and mean = SUM(score - min)/m and  *)
(* no further term; MedianRank replaces the score at position i of the     *)
(* ascending order (from 0) by (i - m/2)/(m/2), m being the length.        *)
(***************************************************************************)
C29_Normalize ==
    /\ ClOneListOf("MeanValue") => Members(cl_out) = ClaimedMeanValue(cl_lists[1])
    /\ ClOneListOf("MedianRank") => Members(cl_out) = ClaimedMedianRank(cl_lists[1])

\* what holds: the half about MedianRank
MedianRankAsClaimed ==
    ClOneListOf("MedianRank") => Members(cl_out) = ClaimedMedianRank(cl_lists[1])
\* MeanValue of the scores 1 and -1 gives 2/3 and -2/3, the mean being
\* taken as 3/2, where the claim has 1 and -1 with the mean 1
MeanValueWithFurtherTerm ==
    /\ ClOneListOf("MeanValue")
    /\ cl_lists[1] = <<[analyte |-> "a", rank |-> I(1)], [analyte |-> "b", rank |-> I(-1)]>>
    /\ Members(cl_out) = {[analyte |-> "a", rank |-> F(2, 3)],
                          [analyte |-> "b", rank |-> F(-2, 3)]}
    /\ ClaimedMeanValue(cl_lists[1]) = {[analyte |-> "a", rank |-> I(1)],
                                        [analyte |-> "b", rank |-> I(-1)]}
\* MedianRank of two scores gives -1 and 0
MedianRankReached ==
    /\ ClOneListOf("MedianRank") /\ Len(cl_lists[1]) = 2
    /\ {cl_out[x].rank : x \in 1..Len(cl_out)} = {I(-1), I(0)}

----------------------------------------------------------------------------
(* Claim about the parallel loop of get_ora (ora.rs) *)

\* the sets that pass the two filters of the loop
PassingSets ==
    {x \in 1..Len(gmt) :
        /\ InSizeRange(gmt[x], config)
        /\ CountIn(gmt[x].parts, interest_list) >= config.min_overlap}
\* the z-th of them in the order of gmt
NthPassing(z) ==
    CHOOSE x \in PassingSets : Cardinality({y \in PassingSets : y < x}) = z - 1
\* the result of the run in which the workers push in the order of gmt
InOrderResult ==
    OraFinal([z \in 1..Cardinality(PassingSets) |->
                 PartialOf(gmt[NthPassing(z)], interest_list, reference)])
\* the row of set x in that run
InOrderRow(x) ==
    InOrderResult[CHOOSE z \in 1..Len(InOrderResult) : InOrderResult[z].set = gmt[x].id]

(***************************************************************************)
(* C30: in every interleaving of the workers of get_ora, every set that    *)
(* passes the filters gives exactly one row, the p, overlap, expected and  *)
(* fdr of a row are those of the set whose id the row has, and the fdr of  *)
(* a set is the same in every interleaving, whatever the order of the      *)
(* rows: every row is the row its set has in the run that pushes in the    *)
(* order of gmt.                                                           *)
(***************************************************************************)
C30_RowsBelongToTheirSet ==
    OraDone =>
        /\ \A x \in PassingSets :
              Cardinality({y \in 1..Len(final_res) : final_res[y].set = gmt[x].id}) = 1
        /\ \A y \in 1..Len(final_res) :
              /\ SetOfRow(y) \in PassingSets
              /\ final_res[y] = InOrderRow(SetOfRow(y))
\* two rows with different fdr, pushed in the other order than gmt
C30_Witness ==
    /\ OraDone /\ Len(final_res) = 2
    /\ SetOfRow(1) = 2 /\ SetOfRow(2) = 1
    /\ final_res[1].fdr # final_res[2].fdr
    /\ final_res[1].overlap # final_res[2].overlap

----------------------------------------------------------------------------
(* methods/gsea.rs: make_permutations *)

\* v.swap(a, b) if it only copied v[b] to v[a]
SwapOverwrite(v, a, b) == [v EXCEPT ![a] = v[b]]
\* v.swap(a, b)
Swap(v, a, b) == [v EXCEPT ![a] = v[b], ![b] = v[a]]
\* the draws of one shuffle: at position i an index of 0..=i (here 1..i)
Draws(n) == {d \in [1..n -> 1..n] : \A i \in 1..n : d[i] <= i}
\* new_order.shuffle(&mut smallrng): from the last position down to the
\* second, the element is swapped with the one at the drawn index
RECURSIVE ShuffleFrom(_, _, _)
ShuffleFrom(v, draws, i) ==
    IF i < 2 THEN v ELSE ShuffleFrom(Swap(v, i, draws[i]), draws, i - 1)
\* (0..max).collect()
IndexVec(max) == [x \in 1..max |-> x - 1]
\* the rows one pass of the closure can push
ShuffledRows(max) ==
    {ShuffleFrom(IndexVec(max), d, max) : d \in Draws(max)}

MaxRows == 2       \* largest number of permutations asked for
MaxIndex == 3      \* largest length of the rank list

MpInit ==
    /\ mp_pc = "loop"
    /\ mp_args \in [permutations : -1..MaxRows, max : 0..MaxIndex]
    /\ temp_permutations = <<>>
    /\ BhOff /\ HyOff /\ OraOff /\ GsOff /\ NtaOff /\ ClOff /\ CgOff
    /\ MtOff /\ MmOff

\* one pass of (0..permutations).for_each
MpPushRow ==
    /\ mp_pc = "loop"
    /\ Len(temp_permutations) < mp_args.permutations
    /\ \E new_order \in ShuffledRows(mp_args.max) :
          temp_permutations' = Append(temp_permutations, new_order)
    /\ UNCHANGED <<mp_pc, mp_args, bhVars, hyVars, oraVars, gsVars, ntaVars,
                   clVars, cgVars, mtVars, mmVars>>

\* the range is exhausted, at once if permutations <= 0
MpReturn ==
    /\ mp_pc = "loop"
    /\ Len(temp_permutations) >= mp_args.permutations
    /\ mp_pc' = "done"
    /\ UNCHANGED <<mp_args, temp_permutations, bhVars, hyVars, oraVars, gsVars,
                   ntaVars, clVars, cgVars, mtVars, mmVars>>

MpNext == MpPushRow \/ MpReturn

SpecMakePermutations == MpInit /\ [][MpNext]_vars

MpDone == mp_pc = "done"
\* every index of 0..n-1 is at exactly one position of the row
IsPermutationOfIndices(row, n) ==
    /\ Len(row) = n
    /\ \A v \in 0..(n - 1) : Cardinality({x \in 1..Len(row) : row[x] = v}) = 1

(***************************************************************************)
(* C23: make_permutations(c, n) returns exactly c rows, none if c <= 0,    *)
(* each of length n and each a permutation of 0..n: every index from 0 to  *)
(* n - 1 is in the row exactly once, so no row holds an index outside the  *)
(* rank list.                                                              *)
(***************************************************************************)
C23_MakePermutations ==
    MpDone =>
        /\ Len(temp_permutations) =
               IF mp_args.permutations <= 0 THEN 0 ELSE mp_args.permutations
        /\ \A r \in 1..Len(temp_permutations) :
              /\ IsPermutationOfIndices(temp_permutations[r], mp_args.max)
              /\ \A x \in 1..Len(temp_permutations[r]) :
                    temp_permutations[r][x] \in 0..(mp_args.max - 1)
\* two different rows over three indices, neither in the order 0, 1, 2
C23_Witness ==
    /\ MpDone /\ mp_args = [permutations |-> 2, max |-> 3]
    /\ Len(temp_permutations) = 2
    /\ temp_permutations[1] # temp_permutations[2]
    /\ \A r \in 1..2 : temp_permutations[r] # IndexVec(3)
\* a negative count gives no row
NoRowForNegativeCount ==
    MpDone /\ mp_args.permutations = -1 /\ mp_args.max = 3 /\ temp_permutations = <<>>
\* every order of the indices can be drawn
EveryOrderDrawn ==
    \A n \in 0..MaxIndex :
        ShuffledRows(n) = {r \in [1..n -> 0..(n - 1)] : IsPermutationOfIndices(r, n)}

----------------------------------------------------------------------------
(* methods/multiomics.rs: stouffer and fisher                              *)
(*                                                                         *)
(* The distributions are those of statrs, taken as the functions they      *)
(* compute.  A returned f64 is kept as the term that defines it:           *)
(*   [fn |-> "normal_cdf", sum, k]   the standard normal distribution      *)
(*       function at s / sqrt(k), s being the sum of the quantiles: sum[q] *)
(*       is the multiple of the quantile of q < 1/2 in s, the quantile of  *)
(*       1 - q being minus that of q and the quantile of 1/2 being 0;      *)
(*   [fn |-> "chi_squared_pdf", dof, prod]   the density of the            *)
(*       chi-squared distribution of dof degrees of freedom at             *)
(*       -2 ln(prod), which is -2 times the sum of the logarithms of the   *)
(*       p-values of product prod.                                         *)

Half == F(1, 2)
\* the p-values below 1/2 whose quantiles the sum is made of
ZBase(vals) ==
    {q \in {vals[x] : x \in 1..Len(vals)} \cup {FSub(I(1), vals[x]) : x \in 1..Len(vals)} :
        FLt(q, Half)}
\* vals.iter().map(|x| n.inverse_cdf(*x)).sum::<f64>()
ZSum(vals) ==
    [q \in ZBase(vals) |->
        Cardinality({x \in 1..Len(vals) : vals[x] = q})
        - Cardinality({x \in 1..Len(vals) : vals[x] = FSub(I(1), q)})]
\* n.cdf(sum / f64::sqrt(k as f64))
stouffer(vals) == [fn |-> "normal_cdf", sum |-> ZSum(vals), k |-> Len(vals)]
stouffer_with_normal(vals) ==
    [fn |-> "normal_cdf", sum |-> ZSum(vals), k |-> Len(vals)]

RECURSIVE FProduct(_)
FProduct(vals) ==
    IF vals = <<>> THEN I(1) ELSE FMul(Head(vals), FProduct(Tail(vals)))
\* ChiSquared::new(2_f64.powi(k as i32 - 1)).unwrap().pdf(pt) with
\* pt = -2.0 * (sum of the logarithms), for k >= 1
fisher(vals) ==
    [fn |-> "chi_squared_pdf", dof |-> IntPow(2, Len(vals) - 1),
     prod |-> FProduct(vals)]

\* The value of a term, where it is a rational number:
\* the normal distribution function at 0 is 1/2 and at +-(the quantile of
\* q) it is q or 1 - q; the density for 2 degrees of freedom is
\* exp(-x/2)/2, which is prod/2 at x = -2 ln(prod)
NonZeroOf(t) == {q \in DOMAIN t.sum : t.sum[q] # 0}
ValueKnown(t) ==
    IF t.fn = "normal_cdf"
    THEN \/ NonZeroOf(t) = {}
         \/ /\ Cardinality(NonZeroOf(t)) = 1
            /\ \A q \in NonZeroOf(t) : t.sum[q] * t.sum[q] = t.k
    ELSE t.dof = 2
ValueOf(t) ==
    IF t.fn = "normal_cdf"
    THEN IF NonZeroOf(t) = {} THEN Half
         ELSE LET q == CHOOSE r \in NonZeroOf(t) : TRUE
              IN IF t.sum[q] > 0 THEN q ELSE FSub(I(1), q)
    ELSE FDiv(t.prod, I(2))
\* A term is known to be above 1: the density for 1 degree of freedom at
\* x = -2 ln(P) is P / sqrt(2 pi x); with x <= 2 (1 - P)/P and pi < 22/7
\* its square is at least 7 P^3 / (88 (1 - P)).  The normal distribution
\* function is never above 1, nor is the density for 2 or more degrees of
\* freedom, which is at most 1/2.
AboveOne(t) ==
    /\ t.fn = "chi_squared_pdf" /\ t.dof = 1
    /\ FGt(FMul(I(7), FMul(t.prod, FMul(t.prod, t.prod))),
           FMul(I(88), FSub(I(1), t.prod)))

\* the p-values of the calls, all strictly between 0 and 1
MetaPs == {F(1, 20), F(1, 4), Half, F(3, 4), F(19, 20)}
MaxMetaPs == 3     \* longest vector of p-values

MtInit ==
    /\ mt_pc = "call"
    /\ mt_vals \in UNION {[1..k -> MetaPs] : k \in 1..MaxMetaPs}
    /\ mt_out = <<>>
    /\ BhOff /\ HyOff /\ OraOff /\ GsOff /\ NtaOff /\ ClOff /\ CgOff
    /\ MpOff /\ MmOff

\* stouffer(vals) and fisher(&vals)
MtCall ==
    /\ mt_pc = "call"
    /\ mt_out' = [stouffer |-> stouffer(mt_vals), fisher |-> fisher(mt_vals)]
    /\ mt_pc' = "done"
    /\ UNCHANGED <<mt_vals, bhVars, hyVars, oraVars, gsVars, ntaVars, clVars,
                   cgVars, mpVars, mmVars>>

SpecMetaP == MtInit /\ [][MtCall]_vars

MtDone == mt_pc = "done"

(***************************************************************************)
(* C22: for every non-empty vector of p-values in (0, 1), stouffer and     *)
(* fisher return a value in [0, 1]; for a vector of a single p, stouffer   *)
(* returns p; and fisher evaluates -2 ln of the product of the k p-values  *)
(* with the distribution function of the chi-squared distribution of 2k    *)
(* degrees of freedom.                                                     *)
(***************************************************************************)
C22_MetaP ==
    MtDone =>
        /\ ~AboveOne(mt_out.stouffer) /\ ~AboveOne(mt_out.fisher)
        /\ Len(mt_vals) = 1 =>
              ValueKnown(mt_out.stouffer) /\ ValueOf(mt_out.stouffer) = mt_vals[1]
        /\ mt_out.fisher.fn \in {"chi_squared_cdf", "chi_squared_sf"}
        /\ mt_out.fisher.dof = 2 * Len(mt_vals)
        /\ mt_out.fisher.prod = FProduct(mt_vals)

\* what holds: the half about stouffer
StoufferAsClaimed ==
    MtDone =>
        /\ mt_out.stouffer.fn = "normal_cdf"
        /\ Len(mt_vals) = 1 =>
              ValueKnown(mt_out.stouffer) /\ ValueOf(mt_out.stouffer) = mt_vals[1]
\* what holds of fisher: the statistic is the claimed one, but it is given
\* to the density, of 2^(k-1) degrees of freedom
FisherDensityOfPowerOfTwo ==
    MtDone =>
        /\ mt_out.fisher.fn = "chi_squared_pdf"
        /\ mt_out.fisher.dof = IntPow(2, Len(mt_vals) - 1)
        /\ mt_out.fisher.prod = FProduct(mt_vals)
\* fisher of the single p-value 0.95 is above 1
FisherAboveOneReached ==
    MtDone /\ mt_vals = <<F(19, 20)>> /\ AboveOne(mt_out.fisher)
\* fisher of two p-values is half their product
FisherOfTwoReached ==
    /\ MtDone /\ mt_vals = <<Half, F(1, 4)>>
    /\ ValueKnown(mt_out.fisher) /\ ValueOf(mt_out.fisher) = F(1, 16)
\* stouffer of p and 1 - p is 1/2
StoufferOfOppositesReached ==
    /\ MtDone /\ mt_vals = <<F(1, 4), F(3, 4)>>
    /\ ValueKnown(mt_out.stouffer) /\ ValueOf(mt_out.stouffer) = Half

----------------------------------------------------------------------------
(* methods/multiomics.rs: multiomic_gsea and multiomic_ora                 *)
(*                                                                         *)
(* What gsea or get_ora returns for a job is an input here: a vector of    *)
(* rows, of which the set and the p are kept, the only fields the two      *)
(* functions read.                                                         *)

\* phash.entry(set).or_default().push(row.p); phash holds its entries in
\* the order of their insertion
PhashPush(entries, row) ==
    IF \E x \in 1..Len(entries) : entries[x].set = row.set
    THEN [x \in 1..Len(entries) |->
             IF entries[x].set = row.set
             THEN [entries[x] EXCEPT !.ps = Append(entries[x].ps, row.p)]
             ELSE entries[x]]
    ELSE Append(entries, [set |-> row.set, ps |-> <<row.p>>])
\* the loop over the rows of one result
RECURSIVE PhashPushAll(_, _)
PhashPushAll(entries, rows) ==
    IF rows = <<>> THEN entries
    ELSE PhashPushAll(PhashPush(entries, Head(rows)), Tail(rows))
\* the meta-p of one entry
MetaP(method, ps) ==
    IF method = "Stouffer" THEN stouffer_with_normal(ps) ELSE fisher(ps)
\* the row pushed to final_result for an entry of phash
MetaRow(analysis, method, entry) ==
    IF analysis = "GSEA"
    THEN [set |-> entry.set, p |-> MetaP(method, entry.ps), fdr |-> I(0),
          nes |-> I(0), es |-> I(0), running_sum |-> <<>>, leading_edge |-> 0]
    ELSE [set |-> entry.set, p |-> MetaP(method, entry.ps), fdr |-> I(0),
          overlap |-> 0, expected |-> I(0), enrichment_ratio |-> I(0)]

MmSets == {"s1", "s2"}
MmPs == {F(1, 4), F(3, 4)}
MmRows == [set : MmSets, p : MmPs]
\* the results of a job: at most two rows, also two rows of one set
MmJobResults == {<<>>} \cup {<<r>> : r \in MmRows} \cup {<<r, t>> : r \in MmRows, t \in MmRows}
\* at most two jobs
MmJobLists ==
    {<<>>} \cup {<<j>> : j \in MmJobResults}
    \cup {<<j, k>> : j \in MmJobResults, k \in MmJobResults}
\* multiomic_gsea with a meta-analysis method, multiomic_ora with any method
MmCalls ==
    [analysis : {"GSEA", "ORA"}, method : {"Stouffer", "Fisher"}]
    \cup {[analysis |-> "ORA", method |-> "Max"]}

MmInit ==
    /\ mm_pc = "jobs"
    /\ mm_call \in MmCalls
    /\ mm_jobs \in MmJobLists
    /\ phash = <<>>
    /\ mm_results = <<>>
    /\ BhOff /\ HyOff /\ OraOff /\ GsOff /\ NtaOff /\ ClOff /\ CgOff
    /\ MpOff /\ MtOff

\* multiomic_ora with a method that is not a meta-analysis
MmPanic ==
    /\ mm_pc = "jobs"
    /\ mm_call.method \notin {"Stouffer", "Fisher"}
    /\ mm_pc' = "panic"
    /\ UNCHANGED <<mm_call, mm_jobs, phash, mm_results, bhVars, hyVars, oraVars,
                   gsVars, ntaVars, clVars, cgVars, mpVars, mtVars>>

\* one pass of `for job in jobs`
MmRunJob ==
    /\ mm_pc = "jobs"
    /\ mm_call.method \in {"Stouffer", "Fisher"}
    /\ Len(mm_results) < Len(mm_jobs)
    /\ LET job_res == mm_jobs[Len(mm_results) + 1]
       IN /\ phash' = PhashPushAll(phash, job_res)
          /\ mm_results' = Append(mm_results, job_res)
    /\ UNCHANGED <<mm_pc, mm_call, mm_jobs, bhVars, hyVars, oraVars, gsVars,
                   ntaVars, clVars, cgVars, mpVars, mtVars>>

\* after the jobs: a row for every key of phash, in the order in which the
\* hash map enumerates its keys, put before the results of the jobs
MmCombine ==
    /\ mm_pc = "jobs"
    /\ mm_call.method \in {"Stouffer", "Fisher"}
    /\ Len(mm_results) = Len(mm_jobs)
    /\ \E o \in EntryOrders(Len(phash)) :
          mm_results' =
              <<[x \in 1..Len(phash) |->
                    MetaRow(mm_call.analysis, mm_call.method, phash[o[x]])]>>
              \o mm_results
    /\ mm_pc' = "done"
    /\ UNCHANGED <<mm_call, mm_jobs, phash, bhVars, hyVars, oraVars, gsVars,
                   ntaVars, clVars, cgVars, mpVars, mtVars>>

MmNext == MmPanic \/ MmRunJob \/ MmCombine

SpecMeta == MmInit /\ [][MmNext]_vars

MmDone == mm_pc = "done"
\* the rows of all jobs, in the order of the jobs
MmAllRows == Flatten(mm_jobs)
\* the p-values the jobs have for a set, in the order of the jobs
PsOfSet(set) ==
    LET OfSet(row) == row.set = set
        rows == SelectSeq(MmAllRows, OfSet)
    IN [x \in 1..Len(rows) |-> rows[x].p]
\* the other fields of a meta row hold neutral values
NeutralFields(row) ==
    IF mm_call.analysis = "GSEA"
    THEN /\ row.nes = I(0) /\ row.es = I(0)
         /\ row.running_sum = <<>> /\ row.leading_edge = 0
    ELSE row.overlap = 0 /\ row.expected = I(0) /\ row.enrichment_ratio = I(0)
\* one row for every set id of the jobs, with the combination of its
\* p-values
MetaRowsOf(meta) ==
    /\ {meta[x].set : x \in 1..Len(meta)} = {MmAllRows[y].set : y \in 1..Len(MmAllRows)}
    /\ \A x, y \in 1..Len(meta) : meta[x].set = meta[y].set => x = y
    /\ \A x \in 1..Len(meta) :
          /\ meta[x].p = MetaP(mm_call.method, PsOfSet(meta[x].set))
          /\ NeutralFields(meta[x])
\* the meta-p values are rational numbers
AllKnown(meta) == \A x \in 1..Len(meta) : ValueKnown(meta[x].p)

(***************************************************************************)
(* C21: the first element of the vector multiomic_gsea and multiomic_ora   *)
(* return with a meta-analysis method has one row for every distinct set   *)
(* id of the results of the jobs, its p the Stouffer or Fisher combination *)
(* of the p-values the jobs have for the set, its fdr the FDR adjustment   *)
(* (Benjamini-Hochberg) of the vector of the meta-p values and not a       *)
(* constant, and neutral values in its other fields.                       *)
(***************************************************************************)
C21_MetaResult ==
    MmDone =>
        LET meta == mm_results[1]
        IN /\ MetaRowsOf(meta)
           /\ AllKnown(meta) =>
                 [x \in 1..Len(meta) |-> meta[x].fdr] =
                     benjamini_hochberg([x \in 1..Len(meta) |-> ValueOf(meta[x].p)])

\* what holds: everything but the fdr, which is 0.0 in every row
MetaRowsWithFdrZero ==
    MmDone =>
        /\ MetaRowsOf(mm_results[1])
        /\ \A x \in 1..Len(mm_results[1]) : mm_results[1][x].fdr = I(0)
        /\ SubSeq(mm_results, 2, Len(mm_results)) = mm_jobs
\* two sets with the meta-p values 1/4 and 1/2, whose Benjamini-Hochberg
\* values are 1/2 and 1/2, both with fdr 0
FdrLeftAtZeroReached ==
    /\ MmDone /\ mm_call = [analysis |-> "GSEA", method |-> "Stouffer"]
    /\ Len(mm_results[1]) = 2 /\ AllKnown(mm_results[1])
    /\ {ValueOf(mm_results[1][x].p) : x \in 1..2} = {F(1, 4), Half}
    /\ benjamini_hochberg([x \in 1..2 |-> ValueOf(mm_results[1][x].p)]) = <<Half, Half>>
    /\ \A x \in 1..2 : mm_results[1][x].fdr = I(0)
\* a set of which one job has two rows: both p-values are combined
TwoRowsOfOneJobReached ==
    /\ MmDone /\ Len(mm_jobs) = 1 /\ Len(mm_jobs[1]) = 2
    /\ Len(mm_results[1]) = 1
    /\ mm_results[1][1].p = MetaP(mm_call.method, <<mm_jobs[1][1].p, mm_jobs[1][2].p>>)

====
